---- MODULE Spec2Model ----
(***************************************************************************)
(* FuzzyTrie: a trie that stores payload items under lower-cased search    *)
(* strings and answers approximate lookups bounded by Levenshtein          *)
(* distance.  Strings are sequences of one-character strings.              *)
(***************************************************************************)
EXTENDS Integers, Sequences, FiniteSets, Bags, TLC

(* ------------------------------ bounds --------------------------------- *)
MaxLen == 1          \* longest search string and query of the general workload
MaxCalls == 2        \* addItemToTrie calls per run
MaxBudget == 1       \* largest explicit maxAllowedDistance
MaxStringLen == 3    \* longest argument of a direct distance call
MaxRenders == 1      \* renders of useFuzzyFilter with changed options after the mount
MaxTime == 2         \* latest reading of performance.now()
MaxThresholds == 2   \* longest list of thresholds other than the default list
MaxRegistrations == 2 \* onUpdate calls on one tracker
MaxClock == 3        \* latest reading of the clock at which a wrapped function is called
MaxWait == 2         \* longest wait of debounce and longest limit of throttle
MaxWrappedCalls == 3 \* calls of one function returned by debounce, throttle or rafThrottle

(* --------------------------- input universes --------------------------- *)
Alphabet == {"a", "b"}
Items == {"x", "y"}

Strs(n) == UNION {[1..k -> Alphabet] : k \in 0..n}

Apple_ == <<"A", "p", "p", "l", "e">>
APPLE_ == <<"A", "P", "P", "L", "E">>
apple_ == <<"a", "p", "p", "l", "e">>
aple_ == <<"a", "p", "l", "e">>
app_ == <<"a", "p", "p">>
apricot_ == <<"a", "p", "r", "i", "c", "o", "t">>
banana_ == <<"b", "a", "n", "a", "n", "a">>
grape_ == <<"g", "r", "a", "p", "e">>
kitten_ == <<"k", "i", "t", "t", "e", "n">>
sitting_ == <<"s", "i", "t", "t", "i", "n", "g">>
book_ == <<"b", "o", "o", "k">>
back_ == <<"b", "a", "c", "k">>
abcdef_ == <<"a", "b", "c", "d", "e", "f">>
aprot_ == <<"a", "p", "r", "o", "t">>
banan_ == <<"b", "a", "n", "a", "n">>
aaabb_ == <<"a", "a", "a", "b", "b">>
babaa_ == <<"b", "a", "b", "a", "a">>

\* The environment draws the arguments of one run from one workload: all
\* short strings over Alphabet with one payload, mixed-case spellings and the
\* empty string with two payloads, or the fruit names of the test-suite.
GeneralWorkload ==
    [inserts |-> Strs(MaxLen) \X {"x"}, queries |-> Strs(MaxLen)]
CaseWorkload ==
    [inserts |-> ({<<"A", "b">>, <<"a", "B">>} \X Items)
                     \cup {<<<<"a">>, "x">>, <<<<"B">>, "y">>, <<<<>>, "y">>},
     queries |-> {<<"A", "B">>, <<"A", "b">>, <<"a", "b">>, <<"A">>}]
FruitWorkload ==
    [inserts |-> {<<Apple_, "Apple fruit">>, <<apple_, "Apple fruit">>,
                  <<apricot_, "Apricot fruit">>, <<banana_, "Banana fruit">>},
     queries |-> {APPLE_, aple_, app_, grape_, <<>>}]
Workloads == {GeneralWorkload, CaseWorkload, FruitWorkload}

\* Search strings that are prefixes and siblings of one another, with two
\* payloads, and queries at equal distance from several of them.
TieWorkload ==
    [inserts |-> {<<"a">>, <<"B">>, <<"a", "b">>, <<"b", "a">>} \X Items,
     queries |-> {<<>>, <<"b">>, <<"a", "a">>}]

Budgets == 0..MaxBudget

(* ------------------------------ strings -------------------------------- *)
\* String.prototype.toLowerCase on the characters used here.
LowerOf == [c \in {"A", "B", "E", "L", "N", "P"} |->
              CASE c = "A" -> "a" [] c = "B" -> "b" [] c = "E" -> "e"
                [] c = "L" -> "l" [] c = "N" -> "n" [] c = "P" -> "p"]

\* LATIN CAPITAL LETTER I WITH DOT ABOVE, the one character that toLowerCase
\* turns into two: i followed by COMBINING DOT ABOVE.
DottedI == "U+0130"
LowerOfDottedI == <<"i", "U+0307">>

RECURSIVE LowerFrom(_, _)
LowerFrom(s, i) ==
    IF i > Len(s) THEN <<>>
    ELSE (IF s[i] = DottedI THEN LowerOfDottedI
          ELSE IF s[i] \in DOMAIN LowerOf THEN <<LowerOf[s[i]]>>
          ELSE <<s[i]>>) \o LowerFrom(s, i + 1)

toLowerCase(s) ==
    IF \A i \in 1..Len(s) : s[i] # DottedI
    THEN [i \in 1..Len(s) |-> IF s[i] \in DOMAIN LowerOf THEN LowerOf[s[i]] ELSE s[i]]
    ELSE LowerFrom(s, 1)

Min2(x, y) == IF x <= y THEN x ELSE y

(* ------------------------- the distance metric ------------------------- *)
\* The default value of the maxAllowedDistance parameter: the number
\* Infinity, which no length exceeds and which absorbs addition.
Infinity == -1

\* Faulty variant: the early exits fire already when the budget is met.
GreaterThanOrEqual(x, max) == max # Infinity /\ x >= max

GreaterThan(x, max) == max # Infinity /\ x > max
\* Faulty variant: the early exits return the budget itself.
PlusOneOmitted(max) == max

PlusOne(max) == IF max = Infinity THEN Infinity ELSE max + 1

\* Faulty variant: the first row is left at zero.
InitialRowZeros(firstStringLength) == [i \in 1..(firstStringLength + 1) |-> 0]

\* previousDistanceRow before the first row: [0, 1, ..., firstStringLength],
\* held 1-based (index i + 1 holds the array's element i).
InitialRow(firstStringLength) == [i \in 1..(firstStringLength + 1) |-> i - 1]

\* The inner loop: extends currentDistanceRow (already holding compareIndex
\* elements) up to firstStringLength + 1 elements.
RECURSIVE FillRow(_, _, _, _, _)
FillRow(firstString, secondStringChar, previousDistanceRow, currentDistanceRow, compareIndex) ==
    IF compareIndex > Len(firstString) THEN currentDistanceRow
    ELSE LET firstStringChar == firstString[compareIndex]
             substitutionCost == IF firstStringChar = secondStringChar THEN 0 ELSE 1
             insertionCost == currentDistanceRow[compareIndex] + 1
             deletionCost == previousDistanceRow[compareIndex + 1] + 1
             substitutionOrMatchCost ==
                 previousDistanceRow[compareIndex] + substitutionCost
             cell == Min2(Min2(insertionCost, deletionCost), substitutionOrMatchCost)
         IN FillRow(firstString, secondStringChar, previousDistanceRow,
                    Append(currentDistanceRow, cell), compareIndex + 1)

\* minimumDistanceInRow: starts at the row's first element (currentIndex) and
\* is lowered by every cell of the row.
RECURSIVE MinimumDistanceInRow(_, _)
MinimumDistanceInRow(row, n) ==
    IF n = 1 THEN row[1] ELSE Min2(MinimumDistanceInRow(row, n - 1), row[n])

\* The outer loop, from row currentIndex on.
RECURSIVE DistanceRows(_, _, _, _, _)
DistanceRows(firstString, secondString, maxAllowedDistance, previousDistanceRow, currentIndex) ==
    IF currentIndex > Len(secondString)
    THEN previousDistanceRow[Len(firstString) + 1]
    ELSE LET currentDistanceRow ==
                 FillRow(firstString, secondString[currentIndex],
                         previousDistanceRow, <<currentIndex>>, 1)
             minimumDistanceInRow ==
                 MinimumDistanceInRow(currentDistanceRow, Len(currentDistanceRow))
         IN IF GreaterThan(minimumDistanceInRow, maxAllowedDistance)
            THEN PlusOne(maxAllowedDistance)
            ELSE DistanceRows(firstString, secondString, maxAllowedDistance,
                              currentDistanceRow, currentIndex + 1)

\* Faulty variant: equal strings are not answered up front.
calculateLevenshteinDistanceNoShortcut(a, b, maxAllowedDistance) ==
    LET firstString == IF Len(a) > Len(b) THEN b ELSE a
        secondString == IF Len(a) > Len(b) THEN a ELSE b
    IN IF GreaterThan(Len(secondString) - Len(firstString), maxAllowedDistance)
       THEN PlusOne(maxAllowedDistance)
       ELSE DistanceRows(firstString, secondString, maxAllowedDistance,
                         InitialRow(Len(firstString)), 1)

\* Faulty variant: the strings are taken in the order given.
calculateLevenshteinDistanceNoSwap(a, b, maxAllowedDistance) ==
    IF a = b THEN 0
    ELSE IF GreaterThan(Len(b) - Len(a), maxAllowedDistance)
         THEN PlusOne(maxAllowedDistance)
         ELSE DistanceRows(a, b, maxAllowedDistance, InitialRow(Len(a)), 1)

\* Faulty variant: the budget is not looked at; the full distance is returned.
calculateLevenshteinDistanceUnbounded(a, b, maxAllowedDistance) ==
    IF a = b THEN 0
    ELSE LET firstString == IF Len(a) > Len(b) THEN b ELSE a
             secondString == IF Len(a) > Len(b) THEN a ELSE b
         IN DistanceRows(firstString, secondString, Infinity,
                         InitialRow(Len(firstString)), 1)

calculateLevenshteinDistance(a, b, maxAllowedDistance) ==
    IF a = b THEN 0
    ELSE LET firstString == IF Len(a) > Len(b) THEN b ELSE a
             secondString == IF Len(a) > Len(b) THEN a ELSE b
         IN IF GreaterThan(Len(secondString) - Len(firstString), maxAllowedDistance)
            THEN PlusOne(maxAllowedDistance)
            ELSE DistanceRows(firstString, secondString, maxAllowedDistance,
                              InitialRow(Len(firstString)), 1)

(* ------------------------------ the trie ------------------------------- *)
\* The heap of TrieNode objects: nodes[n] is the object with identity n.
\* childNodes is the Map in its iteration (insertion) order.
NewNode == [childNodes |-> <<>>, isCompleteWord |-> FALSE, associatedItems |-> <<>>]

rootNode == 1

\* Faulty variant: the constructor puts a placeholder entry into the root.
EmptyTrieSeeded ==
    <<[childNodes |-> <<>>, isCompleteWord |-> TRUE,
       associatedItems |-> <<[storedItem |-> "x", associatedSearchString |-> <<>>]>>]>>

EmptyTrie == <<NewNode>>

\* Map.prototype.has / Map.prototype.get
MapHas(map, key) == \E i \in 1..Len(map) : map[i].char = key
MapGet(map, key) == map[CHOOSE i \in 1..Len(map) : map[i].char = key].node

\* Faulty variant: a child is created for every character, present or not.
RECURSIVE DescendAlwaysCreating(_, _, _, _)
DescendAlwaysCreating(heap, currentNode, normalizedSearchString, i) ==
    IF i > Len(normalizedSearchString)
    THEN [heap |-> heap, currentNode |-> currentNode]
    ELSE LET created == Len(heap) + 1
             grown ==
                 Append([heap EXCEPT ![currentNode].childNodes =
                             Append(@, [char |-> normalizedSearchString[i],
                                        node |-> created])],
                        NewNode)
         IN DescendAlwaysCreating(grown, created, normalizedSearchString, i + 1)

\* The for-of loop of addItemToTrie from character i on: finds or creates the
\* child for each character; yields the grown heap and the node reached.
RECURSIVE Descend(_, _, _, _)
Descend(heap, currentNode, normalizedSearchString, i) ==
    IF i > Len(normalizedSearchString)
    THEN [heap |-> heap, currentNode |-> currentNode]
    ELSE LET currentChar == normalizedSearchString[i]
             created == Len(heap) + 1
             grown ==
                 IF MapHas(heap[currentNode].childNodes, currentChar) THEN heap
                 ELSE Append([heap EXCEPT ![currentNode].childNodes =
                                  Append(@, [char |-> currentChar, node |-> created])],
                             NewNode)
         IN Descend(grown, MapGet(grown[currentNode].childNodes, currentChar),
                    normalizedSearchString, i + 1)

\* Faulty variant: the search string is stored as given, not lower-cased.
addItemToTrieRaw(heap, searchString, itemToAdd) ==
    LET reached == Descend(heap, rootNode, searchString, 1)
    IN [reached.heap EXCEPT
          ![reached.currentNode].isCompleteWord = TRUE,
          ![reached.currentNode].associatedItems =
              Append(@, [storedItem |-> itemToAdd,
                         associatedSearchString |-> searchString])]

\* Faulty variant: a search string that is already stored is not stored again.
addItemToTrieMerging(heap, searchString, itemToAdd) ==
    LET normalizedSearchString == toLowerCase(searchString)
        reached == Descend(heap, rootNode, normalizedSearchString, 1)
    IN [reached.heap EXCEPT
          ![reached.currentNode].isCompleteWord = TRUE,
          ![reached.currentNode].associatedItems =
              IF @ # <<>> THEN @
              ELSE Append(@, [storedItem |-> itemToAdd,
                              associatedSearchString |-> normalizedSearchString])]

\* Faulty variant: the entry is put in front of the node's entries (unshift).
addItemToTriePrepending(heap, searchString, itemToAdd) ==
    LET normalizedSearchString == toLowerCase(searchString)
        reached == Descend(heap, rootNode, normalizedSearchString, 1)
    IN [reached.heap EXCEPT
          ![reached.currentNode].isCompleteWord = TRUE,
          ![reached.currentNode].associatedItems =
              <<[storedItem |-> itemToAdd,
                 associatedSearchString |-> normalizedSearchString]>> \o @]

\* Faulty variant: the node reached is not marked as a complete word.
addItemToTrieUnmarked(heap, searchString, itemToAdd) ==
    LET normalizedSearchString == toLowerCase(searchString)
        reached == Descend(heap, rootNode, normalizedSearchString, 1)
    IN [reached.heap EXCEPT
          ![reached.currentNode].associatedItems =
              Append(@, [storedItem |-> itemToAdd,
                         associatedSearchString |-> normalizedSearchString])]

\* Faulty variant: the entry replaces the node's entries.
addItemToTrieReplacing(heap, searchString, itemToAdd) ==
    LET normalizedSearchString == toLowerCase(searchString)
        reached == Descend(heap, rootNode, normalizedSearchString, 1)
    IN [reached.heap EXCEPT
          ![reached.currentNode].isCompleteWord = TRUE,
          ![reached.currentNode].associatedItems =
              <<[storedItem |-> itemToAdd,
                 associatedSearchString |-> normalizedSearchString]>>]

\* Faulty variant: an empty search string is ignored.
addItemToTrieNonEmpty(heap, searchString, itemToAdd) ==
    LET normalizedSearchString == toLowerCase(searchString)
        reached == Descend(heap, rootNode, normalizedSearchString, 1)
    IN IF searchString = <<>> THEN heap
       ELSE [reached.heap EXCEPT
               ![reached.currentNode].isCompleteWord = TRUE,
               ![reached.currentNode].associatedItems =
                   Append(@, [storedItem |-> itemToAdd,
                              associatedSearchString |-> normalizedSearchString])]

\* Faulty variant: the path is created but the entry is stored at the root.
addItemToTrieAtRoot(heap, searchString, itemToAdd) ==
    LET normalizedSearchString == toLowerCase(searchString)
        reached == Descend(heap, rootNode, normalizedSearchString, 1)
    IN [reached.heap EXCEPT
          ![rootNode].isCompleteWord = TRUE,
          ![rootNode].associatedItems =
              Append(@, [storedItem |-> itemToAdd,
                         associatedSearchString |-> normalizedSearchString])]

\* Faulty variant: the root is marked as a complete word by every insert.
addItemToTrieMarkingRoot(heap, searchString, itemToAdd) ==
    LET normalizedSearchString == toLowerCase(searchString)
        reached == Descend(heap, rootNode, normalizedSearchString, 1)
    IN [reached.heap EXCEPT
          ![rootNode].isCompleteWord = TRUE,
          ![reached.currentNode].isCompleteWord = TRUE,
          ![reached.currentNode].associatedItems =
              Append(@, [storedItem |-> itemToAdd,
                         associatedSearchString |-> normalizedSearchString])]

addItemToTrie(heap, searchString, itemToAdd) ==
    LET normalizedSearchString == toLowerCase(searchString)
        reached == Descend(heap, rootNode, normalizedSearchString, 1)
    IN [reached.heap EXCEPT
          ![reached.currentNode].isCompleteWord = TRUE,
          ![reached.currentNode].associatedItems =
              Append(@, [storedItem |-> itemToAdd,
                         associatedSearchString |-> normalizedSearchString])]

\* Faulty variant: an entry is kept only when strictly below the budget.
RECURSIVE MatchEntriesStrict(_, _, _, _)
MatchEntriesStrict(entries, i, normalizedQuery, maxAllowedDistance) ==
    IF i > Len(entries) THEN <<>>
    ELSE LET calculatedDistance ==
                 calculateLevenshteinDistance(normalizedQuery,
                     entries[i].associatedSearchString, maxAllowedDistance)
             rest == MatchEntriesStrict(entries, i + 1, normalizedQuery,
                                        maxAllowedDistance)
         IN IF calculatedDistance < maxAllowedDistance
            THEN <<[matchedItem |-> entries[i].storedItem,
                    levenshteinDistance |-> calculatedDistance,
                    matchedSearchString |-> entries[i].associatedSearchString]>>
                 \o rest
            ELSE rest

\* The forEach over associatedItems from entry i on: the entries within the
\* allowed distance, in order.
RECURSIVE MatchEntries(_, _, _, _)
MatchEntries(entries, i, normalizedQuery, maxAllowedDistance) ==
    IF i > Len(entries) THEN <<>>
    ELSE LET calculatedDistance ==
                 calculateLevenshteinDistance(normalizedQuery,
                     entries[i].associatedSearchString, maxAllowedDistance)
             rest == MatchEntries(entries, i + 1, normalizedQuery, maxAllowedDistance)
         IN IF calculatedDistance <= maxAllowedDistance
            THEN <<[matchedItem |-> entries[i].storedItem,
                    levenshteinDistance |-> calculatedDistance,
                    matchedSearchString |-> entries[i].associatedSearchString]>>
                 \o rest
            ELSE rest

\* traverseTrieNodes: what one call pushes to searchResults, in push order.
RECURSIVE traverseTrieNodes(_, _, _, _)
RECURSIVE TraverseChildren(_, _, _, _, _)
traverseTrieNodes(heap, currentNode, normalizedQuery, maxAllowedDistance) ==
    (IF heap[currentNode].isCompleteWord
     THEN MatchEntries(heap[currentNode].associatedItems, 1, normalizedQuery,
                       maxAllowedDistance)
     ELSE <<>>)
    \o TraverseChildren(heap, heap[currentNode].childNodes, 1, normalizedQuery,
                        maxAllowedDistance)
TraverseChildren(heap, childNodes, i, normalizedQuery, maxAllowedDistance) ==
    IF i > Len(childNodes) THEN <<>>
    ELSE traverseTrieNodes(heap, childNodes[i].node, normalizedQuery,
                           maxAllowedDistance)
         \o TraverseChildren(heap, childNodes, i + 1, normalizedQuery,
                             maxAllowedDistance)

\* Faulty variant: the results are left in discovery order.
InsertUnsorted(sorted, r) == Append(sorted, r)

\* Faulty variant: a sort that is not stable, r goes before its equals.
RECURSIVE InsertSortedUnstable(_, _)
InsertSortedUnstable(sorted, r) ==
    IF sorted = <<>> THEN <<r>>
    ELSE IF sorted[Len(sorted)].levenshteinDistance - r.levenshteinDistance >= 0
         THEN Append(InsertSortedUnstable(SubSeq(sorted, 1, Len(sorted) - 1), r),
                     sorted[Len(sorted)])
         ELSE Append(sorted, r)

\* Array.prototype.sort with the comparator a.levenshteinDistance -
\* b.levenshteinDistance: a stable sort.  InsertSorted puts r behind every
\* element that does not compare greater.
RECURSIVE InsertSorted(_, _)
InsertSorted(sorted, r) ==
    IF sorted = <<>> THEN <<r>>
    ELSE IF sorted[Len(sorted)].levenshteinDistance - r.levenshteinDistance > 0
         THEN Append(InsertSorted(SubSeq(sorted, 1, Len(sorted) - 1), r),
                     sorted[Len(sorted)])
         ELSE Append(sorted, r)

RECURSIVE SortByDistance(_, _)
SortByDistance(searchResults, n) ==
    IF n = 0 THEN <<>>
    ELSE InsertSorted(SortByDistance(searchResults, n - 1), searchResults[n])

\* The sorted searchResults of searchItems, before the final map.
sortedSearchResults(heap, queryString, maxAllowedDistance) ==
    LET normalizedQuery == toLowerCase(queryString)
        searchResults ==
            traverseTrieNodes(heap, rootNode, normalizedQuery, maxAllowedDistance)
    IN SortByDistance(searchResults, Len(searchResults))

\* Faulty variant: an empty query is answered with no result.
searchItemsSkippingEmpty(heap, queryString, maxAllowedDistance) ==
    IF queryString = <<>> THEN <<>>
    ELSE LET sorted == sortedSearchResults(heap, queryString, maxAllowedDistance)
         IN [i \in 1..Len(sorted) |-> sorted[i].matchedItem]

searchItems(heap, queryString, maxAllowedDistance) ==
    LET sorted == sortedSearchResults(heap, queryString, maxAllowedDistance)
    IN [i \in 1..Len(sorted) |-> sorted[i].matchedItem]

\* Faulty variant: the default budget of the distance function is used.
DefaultMaxAllowedDistanceUnbounded == Infinity

\* The default value of searchItems' maxAllowedDistance parameter.
DefaultMaxAllowedDistance == 2

(* ---------------------------- state machine ---------------------------- *)
VARIABLES
    nodes,      \* the heap of TrieNode objects; nodes[rootNode] is the root
    calls,      \* the addItemToTrie calls made so far, with their raw arguments
    lastCall,   \* the call that returned last: its name, arguments and return value
    run,        \* the call in progress when calls are followed step by step
    hook,       \* the useFuzzyFilter instance that owns the trie, if any
    tracker,    \* the ScrollTracker instance and the browser events it waits for
    wrapped     \* a function returned by debounce, throttle or rafThrottle, if any

vars == <<nodes, calls, lastCall, run, hook, tracker, wrapped>>

\* No call is in progress.
Idle == [pc |-> "idle"]

\* The trie is used directly, not through useFuzzyFilter.
Unmounted == [mounted |-> FALSE]

\* No ScrollTracker has been constructed.
NoTracker == [constructed |-> FALSE]

\* No function has been wrapped by debounce, throttle or rafThrottle.
Unwrapped == [by |-> "none"]

Init ==
    /\ nodes = EmptyTrie
    /\ calls = <<>>
    /\ lastCall = [op |-> "new"]
    /\ run = Idle
    /\ hook = Unmounted
    /\ tracker = NoTracker
    /\ wrapped = Unwrapped

Searched == lastCall.op = "searchItems"

\* All search strings and items passed so far come from workload W, and so
\* does the query when the last call was a search.
DrawnFrom(W) ==
    /\ \A i \in 1..Len(calls) :
           <<calls[i].searchString, calls[i].itemToAdd>> \in W.inserts
    /\ Searched => lastCall.queryString \in W.queries

AddItemToTrie(searchString, itemToAdd) ==
    /\ Len(calls) < MaxCalls
    /\ nodes' = addItemToTrie(nodes, searchString, itemToAdd)
    /\ calls' = Append(calls, [searchString |-> searchString, itemToAdd |-> itemToAdd])
    /\ lastCall' = [op |-> "addItemToTrie", searchString |-> searchString,
                    itemToAdd |-> itemToAdd]
    /\ UNCHANGED <<run, hook, tracker, wrapped>>

\* Faulty variant: the traversal takes the entries out of the nodes it visits.
SearchItemsConsuming(query, budget) ==
    /\ lastCall' = [op |-> "searchItems", queryString |-> query,
                    maxAllowedDistance |-> budget, budgetOmitted |-> FALSE,
                    returned |-> searchItems(nodes, query, budget)]
    /\ nodes' = [n \in 1..Len(nodes) |->
                    IF nodes[n].isCompleteWord
                    THEN [nodes[n] EXCEPT !.associatedItems = <<>>]
                    ELSE nodes[n]]
    /\ UNCHANGED <<calls, run, hook, tracker, wrapped>>

SearchItems(query, budget) ==
    /\ lastCall' = [op |-> "searchItems", queryString |-> query,
                    maxAllowedDistance |-> budget, budgetOmitted |-> FALSE,
                    returned |-> searchItems(nodes, query, budget)]
    /\ UNCHANGED <<nodes, calls, run, hook, tracker, wrapped>>

SearchItemsDefault(query) ==
    /\ lastCall' = [op |-> "searchItems", queryString |-> query,
                    maxAllowedDistance |-> DefaultMaxAllowedDistance,
                    budgetOmitted |-> TRUE,
                    returned |-> searchItems(nodes, query, DefaultMaxAllowedDistance)]
    /\ UNCHANGED <<nodes, calls, run, hook, tracker, wrapped>>

Next ==
    \E W \in Workloads :
        /\ DrawnFrom(W)
        /\ \/ \E p \in W.inserts : AddItemToTrie(p[1], p[2])
           \/ \E q \in W.queries, k \in Budgets : SearchItems(q, k)
           \/ \E q \in W.queries : SearchItemsDefault(q)

Spec == Init /\ [][Next]_vars

\* The same calls with the arguments of TieWorkload.
NextTies ==
    /\ DrawnFrom(TieWorkload)
    /\ \/ \E p \in TieWorkload.inserts : AddItemToTrie(p[1], p[2])
       \/ \E q \in TieWorkload.queries, k \in Budgets : SearchItems(q, k)
       \/ \E q \in TieWorkload.queries : SearchItemsDefault(q)

SpecTies == Init /\ [][NextTies]_vars

\* Inserts alone: every search string over the alphabet up to one character
\* more than the general workload, mixed-case spellings of some of them, and
\* strings that lower-casing makes longer.
InsertStrings ==
    Strs(MaxLen + 1) \cup {<<"B">>, <<"A", "b">>, <<"b", "A">>, <<DottedI>>, <<"a", DottedI>>}

NextInserts == \E s \in InsertStrings, x \in Items : AddItemToTrie(s, x)

SpecInserts == Init /\ [][NextInserts]_vars

\* The distance function on its own.  A run is one direct call: the initial
\* state holds its arguments (short strings, or an example of the class
\* documentation, with a budget of DistanceBudgets), the step computes the
\* return value.
\* Budgets of direct calls: the explicit ones, the default Infinity, the 2
\* that searchItems passes by default, and a negative number.
DistanceBudgets == Budgets \cup {Infinity, DefaultMaxAllowedDistance, -2}

DistanceInputs ==
    (Strs(MaxStringLen) \X Strs(MaxStringLen) \X DistanceBudgets)
    \cup ({kitten_, sitting_} \X {kitten_, sitting_} \X DistanceBudgets)
    \cup ({book_, back_} \X {book_, back_} \X DistanceBudgets)
    \cup ({<<"a">>, abcdef_} \X {<<"a">>, abcdef_} \X DistanceBudgets)
    \cup ({aaabb_, babaa_} \X {aaabb_, babaa_} \X DistanceBudgets)

InitDistance ==
    /\ nodes = EmptyTrie
    /\ calls = <<>>
    /\ \E arg \in DistanceInputs :
           lastCall = [op |-> "pending", firstString |-> arg[1],
                       secondString |-> arg[2], maxAllowedDistance |-> arg[3]]
    /\ run = Idle
    /\ hook = Unmounted
    /\ tracker = NoTracker
    /\ wrapped = Unwrapped

CalculateLevenshteinDistance ==
    /\ lastCall.op = "pending"
    /\ lastCall' = [op |-> "calculateLevenshteinDistance",
                    firstString |-> lastCall.firstString,
                    secondString |-> lastCall.secondString,
                    maxAllowedDistance |-> lastCall.maxAllowedDistance,
                    returned |-> calculateLevenshteinDistance(
                                     lastCall.firstString, lastCall.secondString,
                                     lastCall.maxAllowedDistance)]
    /\ UNCHANGED <<nodes, calls, run, hook, tracker, wrapped>>

NextDistance == CalculateLevenshteinDistance

SpecDistance == InitDistance /\ [][NextDistance]_vars

(* ----------------------- the calls, step by step ----------------------- *)
\* The three methods followed one loop iteration at a time.  run holds the
\* call in progress with its local variables; a call runs to its return or
\* to a thrown error before the next one starts.
StepStrings == {<<>>, <<"a">>, <<"A", "b">>, <<"b", "a">>}

\* What Map.prototype.get yields for a missing key, as a node identity.
undefined == 0

Threw(error) == [pc |-> "threw", error |-> error]

\* The body of the for-of loop of addItemToTrie: creates the child for
\* currentChar when it is missing, then looks it up.
\* Faulty variant: a missing child is not created.
FindOrCreateChildNoCreate(heap, currentNode, currentChar) ==
    [heap |-> heap,
     currentNode |->
         IF MapHas(heap[currentNode].childNodes, currentChar)
         THEN MapGet(heap[currentNode].childNodes, currentChar)
         ELSE undefined]

FindOrCreateChild(heap, currentNode, currentChar) ==
    LET created == Len(heap) + 1
        grown ==
            IF MapHas(heap[currentNode].childNodes, currentChar) THEN heap
            ELSE Append([heap EXCEPT ![currentNode].childNodes =
                             Append(@, [char |-> currentChar, node |-> created])],
                        NewNode)
    IN [heap |-> grown,
        currentNode |->
            IF MapHas(grown[currentNode].childNodes, currentChar)
            THEN MapGet(grown[currentNode].childNodes, currentChar)
            ELSE undefined]

CallAddItemToTrie(searchString, itemToAdd) ==
    /\ run = Idle
    /\ Len(calls) < MaxCalls
    /\ run' = [pc |-> "addItemToTrie", searchString |-> searchString,
               itemToAdd |-> itemToAdd,
               normalizedSearchString |-> toLowerCase(searchString),
               currentNode |-> rootNode, i |-> 1]
    /\ lastCall' = [op |-> "running"]
    /\ UNCHANGED <<nodes, calls, hook, tracker, wrapped>>

\* One iteration of the for-of loop; reading childNodes of undefined throws.
AddItemToTrieLoop ==
    /\ run.pc = "addItemToTrie"
    /\ run.i <= Len(run.normalizedSearchString)
    /\ IF run.currentNode = undefined
       THEN run' = Threw("TypeError") /\ UNCHANGED nodes
       ELSE LET found == FindOrCreateChild(nodes, run.currentNode,
                                           run.normalizedSearchString[run.i])
            IN /\ nodes' = found.heap
               /\ run' = [run EXCEPT !.currentNode = found.currentNode, !.i = @ + 1]
    /\ UNCHANGED <<calls, lastCall, hook, tracker, wrapped>>

\* After the loop: mark the node reached, push the entry, return.
AddItemToTrieReturn ==
    /\ run.pc = "addItemToTrie"
    /\ run.i > Len(run.normalizedSearchString)
    /\ IF run.currentNode = undefined
       THEN run' = Threw("TypeError") /\ UNCHANGED <<nodes, calls, lastCall>>
       ELSE /\ nodes' = [nodes EXCEPT
                           ![run.currentNode].isCompleteWord = TRUE,
                           ![run.currentNode].associatedItems =
                               Append(@, [storedItem |-> run.itemToAdd,
                                          associatedSearchString |->
                                              run.normalizedSearchString])]
            /\ calls' = Append(calls, [searchString |-> run.searchString,
                                       itemToAdd |-> run.itemToAdd])
            /\ lastCall' = [op |-> "addItemToTrie", searchString |-> run.searchString,
                            itemToAdd |-> run.itemToAdd]
            /\ run' = Idle
    /\ UNCHANGED <<hook, tracker, wrapped>>

\* The activation of calculateLevenshteinDistance(a, b, maxAllowedDistance).
EnterDistance(a, b, maxAllowedDistance) ==
    [pc |-> "enter", firstString |-> a, secondString |-> b,
     maxAllowedDistance |-> maxAllowedDistance, previousDistanceRow |-> <<>>,
     currentDistanceRow |-> <<>>, currentIndex |-> 0, compareIndex |-> 0,
     minimumDistanceInRow |-> 0, returned |-> 0]

ReturnDistance(d, value) == [d EXCEPT !.pc = "returned", !.returned = value]

\* Faulty variant: a matching character costs a substitution too.
DistanceCellCountingMatches(d) ==
    LET insertionCost == d.currentDistanceRow[d.compareIndex] + 1
        deletionCost == d.previousDistanceRow[d.compareIndex + 1] + 1
        substitutionOrMatchCost == d.previousDistanceRow[d.compareIndex] + 1
    IN Min2(Min2(insertionCost, deletionCost), substitutionOrMatchCost)

\* The cell the inner loop computes at compareIndex (rows held 1-based).
DistanceCell(d) ==
    LET firstStringChar == d.firstString[d.compareIndex]
        secondStringChar == d.secondString[d.currentIndex]
        substitutionCost == IF firstStringChar = secondStringChar THEN 0 ELSE 1
        insertionCost == d.currentDistanceRow[d.compareIndex] + 1
        deletionCost == d.previousDistanceRow[d.compareIndex + 1] + 1
        substitutionOrMatchCost ==
            d.previousDistanceRow[d.compareIndex] + substitutionCost
    IN Min2(Min2(insertionCost, deletionCost), substitutionOrMatchCost)

\* The next step of the activation d: the checks at entry, one iteration of
\* the loop that fills the initial row, the head of the outer loop, or one
\* iteration (or the end) of the inner loop.
DistanceStep(d) ==
    CASE d.pc = "enter" ->
           IF d.firstString = d.secondString THEN ReturnDistance(d, 0)
           ELSE LET swap == Len(d.firstString) > Len(d.secondString)
                    firstString == IF swap THEN d.secondString ELSE d.firstString
                    secondString == IF swap THEN d.firstString ELSE d.secondString
                IN IF GreaterThan(Len(secondString) - Len(firstString),
                                  d.maxAllowedDistance)
                   THEN ReturnDistance(d, PlusOne(d.maxAllowedDistance))
                   ELSE [d EXCEPT !.pc = "init", !.firstString = firstString,
                                  !.secondString = secondString]
      [] d.pc = "init" ->
           IF Len(d.previousDistanceRow) <= Len(d.firstString)
           THEN [d EXCEPT !.previousDistanceRow = Append(@, Len(@))]
           ELSE [d EXCEPT !.pc = "outer", !.currentIndex = 1]
      [] d.pc = "outer" ->
           IF d.currentIndex <= Len(d.secondString)
           THEN [d EXCEPT !.pc = "inner", !.currentDistanceRow = <<d.currentIndex>>,
                          !.minimumDistanceInRow = d.currentIndex,
                          !.compareIndex = 1]
           ELSE ReturnDistance(d, d.previousDistanceRow[Len(d.firstString) + 1])
      [] d.pc = "inner" ->
           IF d.compareIndex <= Len(d.firstString)
           THEN [d EXCEPT !.currentDistanceRow = Append(@, DistanceCell(d)),
                          !.minimumDistanceInRow = Min2(@, DistanceCell(d)),
                          !.compareIndex = @ + 1]
           ELSE IF GreaterThan(d.minimumDistanceInRow, d.maxAllowedDistance)
                THEN ReturnDistance(d, PlusOne(d.maxAllowedDistance))
                ELSE [d EXCEPT !.pc = "outer",
                               !.previousDistanceRow = d.currentDistanceRow,
                               !.currentIndex = @ + 1]

\* A direct call of the distance function, on a fresh object.
CallCalculateLevenshteinDistance(a, b, maxAllowedDistance) ==
    /\ run = Idle
    /\ calls = <<>>
    /\ run' = [pc |-> "calculateLevenshteinDistance",
               distance |-> EnterDistance(a, b, maxAllowedDistance)]
    /\ lastCall' = [op |-> "running"]
    /\ UNCHANGED <<nodes, calls, hook, tracker, wrapped>>

CalculateLevenshteinDistanceStep ==
    /\ run.pc = "calculateLevenshteinDistance"
    /\ run.distance.pc # "returned"
    /\ run' = [run EXCEPT !.distance = DistanceStep(@)]
    /\ UNCHANGED <<nodes, calls, lastCall, hook, tracker, wrapped>>

CalculateLevenshteinDistanceReturn ==
    /\ run.pc = "calculateLevenshteinDistance"
    /\ run.distance.pc = "returned"
    /\ lastCall' = [op |-> "calculateLevenshteinDistance",
                    returned |-> run.distance.returned]
    /\ run' = Idle
    /\ UNCHANGED <<nodes, calls, hook, tracker, wrapped>>

\* searchItems: stack holds the activations of traverseTrieNodes, each with
\* its position in the forEach over the entries and over the children;
\* distance is the distance call made for the current entry, if any.
CallSearchItems(queryString, maxAllowedDistance, budgetOmitted) ==
    /\ run = Idle
    /\ run' = [pc |-> "searchItems", queryString |-> queryString,
               normalizedQuery |-> toLowerCase(queryString),
               maxAllowedDistance |-> maxAllowedDistance,
               budgetOmitted |-> budgetOmitted,
               stack |-> <<[currentNode |-> rootNode, entry |-> 1, child |-> 1]>>,
               searchResults |-> <<>>, distance |-> Idle]
    /\ lastCall' = [op |-> "running"]
    /\ UNCHANGED <<nodes, calls, hook, tracker, wrapped>>

Traversing == run.pc = "searchItems" /\ run.stack # <<>> /\ run.distance = Idle

TopFrame == run.stack[Len(run.stack)]

\* The forEach over the entries of the current node still has an entry to visit.
EntriesLeft ==
    /\ nodes[TopFrame.currentNode].isCompleteWord
    /\ TopFrame.entry <= Len(nodes[TopFrame.currentNode].associatedItems)

\* The callback of the entries' forEach calls the distance function.
TraverseEntry ==
    /\ Traversing
    /\ EntriesLeft
    /\ run' = [run EXCEPT !.distance =
                   EnterDistance(run.normalizedQuery,
                       nodes[TopFrame.currentNode].associatedItems[TopFrame.entry]
                           .associatedSearchString,
                       run.maxAllowedDistance)]
    /\ UNCHANGED <<nodes, calls, lastCall, hook, tracker, wrapped>>

SearchDistanceStep ==
    /\ run.pc = "searchItems"
    /\ run.distance # Idle
    /\ run.distance.pc # "returned"
    /\ run' = [run EXCEPT !.distance = DistanceStep(@)]
    /\ UNCHANGED <<nodes, calls, lastCall, hook, tracker, wrapped>>

\* The distance call returned: keep the entry when it is within the budget.
SearchDistanceReturn ==
    /\ run.pc = "searchItems"
    /\ run.distance # Idle
    /\ run.distance.pc = "returned"
    /\ LET visited == nodes[TopFrame.currentNode].associatedItems[TopFrame.entry]
           calculatedDistance == run.distance.returned
       IN run' = [run EXCEPT
                    !.distance = Idle,
                    !.stack[Len(run.stack)].entry = @ + 1,
                    !.searchResults =
                        IF calculatedDistance <= run.maxAllowedDistance
                        THEN Append(@, [matchedItem |-> visited.storedItem,
                                        levenshteinDistance |-> calculatedDistance,
                                        matchedSearchString |->
                                            visited.associatedSearchString])
                        ELSE @]
    /\ UNCHANGED <<nodes, calls, lastCall, hook, tracker, wrapped>>

\* The forEach over the children calls traverseTrieNodes for the next child.
TraverseChild ==
    /\ Traversing
    /\ ~EntriesLeft
    /\ TopFrame.child <= Len(nodes[TopFrame.currentNode].childNodes)
    /\ run' = [run EXCEPT !.stack =
                   Append([@ EXCEPT ![Len(@)].child = @ + 1],
                          [currentNode |->
                               nodes[TopFrame.currentNode].childNodes[TopFrame.child].node,
                           entry |-> 1, child |-> 1])]
    /\ UNCHANGED <<nodes, calls, lastCall, hook, tracker, wrapped>>

\* traverseTrieNodes returns to its caller.
TraverseReturn ==
    /\ Traversing
    /\ ~EntriesLeft
    /\ TopFrame.child > Len(nodes[TopFrame.currentNode].childNodes)
    /\ run' = [run EXCEPT !.stack = SubSeq(@, 1, Len(@) - 1)]
    /\ UNCHANGED <<nodes, calls, lastCall, hook, tracker, wrapped>>

\* The traversal is over: sort, map, return.
SearchItemsReturn ==
    /\ run.pc = "searchItems"
    /\ run.stack = <<>>
    /\ LET sorted == SortByDistance(run.searchResults, Len(run.searchResults))
       IN lastCall' = [op |-> "searchItems", queryString |-> run.queryString,
                       maxAllowedDistance |-> run.maxAllowedDistance,
                       budgetOmitted |-> run.budgetOmitted,
                       returned |-> [i \in 1..Len(sorted) |-> sorted[i].matchedItem]]
    /\ run' = Idle
    /\ UNCHANGED <<nodes, calls, hook, tracker, wrapped>>

\* A call in progress takes its next step.
Continue ==
    \/ AddItemToTrieLoop
    \/ AddItemToTrieReturn
    \/ CalculateLevenshteinDistanceStep
    \/ CalculateLevenshteinDistanceReturn
    \/ TraverseEntry
    \/ SearchDistanceStep
    \/ SearchDistanceReturn
    \/ TraverseChild
    \/ TraverseReturn
    \/ SearchItemsReturn

NextSteps ==
    \/ \E s \in StepStrings : CallAddItemToTrie(s, "x")
    \/ \E a \in StepStrings, b \in StepStrings, k \in DistanceBudgets :
           CallCalculateLevenshteinDistance(a, b, k)
    \/ \E q \in StepStrings, k \in Budgets : CallSearchItems(q, k, FALSE)
    \/ \E q \in StepStrings : CallSearchItems(q, DefaultMaxAllowedDistance, TRUE)
    \/ Continue

\* The methods are synchronous: a call that has started runs on until it
\* returns or throws.
SpecSteps == Init /\ [][NextSteps]_vars /\ WF_vars(Continue)

(* --------------------------- useFuzzyFilter ---------------------------- *)
\* One instance of the hook.  nodes is the trie of trieRef.current and calls
\* the inserts that built it; hook holds the options of the latest render,
\* whether the effect that rebuilds the trie is still to run, the suggestions
\* state, the options captured by the debounced search of the latest useMemo,
\* the pending timers of that function and of its predecessors in the order
\* they were set, what the last step fired, and the most recent search call.
DefaultDebounceMs == 150
DefaultMinSearchLength == 1
DefaultMaxDistance == 2
DefaultMaxResults == 10
ShortDebounceMs == 50

\* The items are payloads; getSearchString gives each its search string.
getSearchString == [x \in Items |-> IF x = "x" THEN <<"a">> ELSE <<"A", "b">>]

FilterOptions ==
    [items : {<<>>, <<"x">>, <<"x", "y">>},
     minSearchLength : {DefaultMinSearchLength, 2},
     maxDistance : {DefaultMaxDistance, 0},
     maxResults : {DefaultMaxResults, 1},
     debounceMs : {DefaultDebounceMs, ShortDebounceMs}]

FilterTerms == {<<>>, <<"a">>, <<"a", "b">>}

\* The dependency list of the useMemo: the values its debounced function captures.
SearchDeps(options) ==
    [minSearchLength |-> options.minSearchLength, maxDistance |-> options.maxDistance,
     maxResults |-> options.maxResults, debounceMs |-> options.debounceMs]

\* Array.prototype.slice(0, end)
slice(array, end) ==
    LET relativeEnd == IF end < 0 THEN Len(array) + end ELSE end
        final == IF relativeEnd < 0 THEN 0 ELSE Min2(relativeEnd, Len(array))
    IN SubSeq(array, 1, final)

\* The function that debounce wraps: what it passes to setSuggestions.
DebouncedSearchBody(trie, captured, searchTerm) ==
    IF Len(searchTerm) < captured.minSearchLength THEN <<>>
    ELSE slice(searchItems(trie, searchTerm, captured.maxDistance), captured.maxResults)

\* The inserts of the effect for the first n items.
EffectInserts(items, n) ==
    [i \in 1..n |-> [searchString |-> getSearchString[items[i]], itemToAdd |-> items[i]]]

\* The trie the effect builds: a new FuzzyTrie with every item added.
RECURSIVE EffectTrie(_, _)
EffectTrie(items, n) ==
    IF n = 0 THEN EmptyTrie
    ELSE addItemToTrie(EffectTrie(items, n - 1), getSearchString[items[n]], items[n])

\* The options of a caller that passes the items only.
DefaultOptions ==
    {o \in FilterOptions :
        /\ o.minSearchLength = DefaultMinSearchLength
        /\ o.maxDistance = DefaultMaxDistance
        /\ o.maxResults = DefaultMaxResults
        /\ o.debounceMs = DefaultDebounceMs}

\* The first render, with the default options.
InitFilter ==
    /\ nodes = EmptyTrie
    /\ calls = <<>>
    /\ lastCall = [op |-> "new"]
    /\ run = Idle
    /\ \E options \in DefaultOptions :
           hook = [mounted |-> TRUE, options |-> options, effectPending |-> TRUE,
                   suggestions |-> <<>>, search |-> SearchDeps(options),
                   generation |-> 1, timers |-> <<>>, fired |-> {}, renders |-> 0,
                   searched |-> <<>>]
    /\ tracker = NoTracker
    /\ wrapped = Unwrapped

\* A render with other options, or with the same options and a new
\* getSearchString function: useMemo makes a new debounced function when its
\* dependencies changed (the timer of the old one stays pending), and the
\* effect is scheduled when items or getSearchString changed.
Render(options, newGetSearchString) ==
    /\ hook.renders < MaxRenders
    /\ options # hook.options \/ newGetSearchString
    /\ hook' = [hook EXCEPT
                  !.options = options,
                  !.effectPending =
                      @ \/ options.items # hook.options.items \/ newGetSearchString,
                  !.search = SearchDeps(options),
                  !.generation =
                      IF SearchDeps(options) # hook.search THEN @ + 1 ELSE @,
                  !.fired = {},
                  !.renders = @ + 1]
    /\ UNCHANGED <<nodes, calls, lastCall, run, tracker, wrapped>>

\* The effect: trieRef.current becomes a new trie holding the items.
RunEffect ==
    /\ hook.effectPending
    /\ nodes' = EffectTrie(hook.options.items, Len(hook.options.items))
    /\ calls' = EffectInserts(hook.options.items, Len(hook.options.items))
    /\ hook' = [hook EXCEPT !.effectPending = FALSE, !.fired = {}]
    /\ UNCHANGED <<lastCall, run, tracker, wrapped>>

\* search(searchTerm) on the function of the latest render: debounce clears
\* the timer of that function and sets a new one.
Search(searchTerm) ==
    /\ hook' = [hook EXCEPT
                  !.timers = Append(SelectSeq(@, LAMBDA t : t.generation # hook.generation),
                                    [generation |-> hook.generation,
                                     captured |-> hook.search,
                                     searchTerm |-> searchTerm]),
                  !.fired = {},
                  !.searched = <<[captured |-> hook.search, searchTerm |-> searchTerm]>>]
    /\ UNCHANGED <<nodes, calls, lastCall, run, tracker, wrapped>>

\* The timers a debounced search of the hook can set.
FilterTimers ==
    [generation : 1..(MaxRenders + 1),
     captured : {SearchDeps(o) : o \in FilterOptions},
     searchTerm : FilterTerms]

\* Timer i fires before timer j when it was set before it with a delay
\* that is not longer.
FiresBefore(timers, i, j) ==
    i < j /\ timers[i].captured.debounceMs <= timers[j].captured.debounceMs

\* A timer fires and runs the wrapped function with the values it captured,
\* on the trie trieRef.current holds at this moment.
Fire(timer) ==
    /\ \E j \in 1..Len(hook.timers) :
           /\ hook.timers[j] = timer
           /\ \A i \in 1..Len(hook.timers) : ~FiresBefore(hook.timers, i, j)
    /\ hook' = [hook EXCEPT
                  !.timers = SelectSeq(@, LAMBDA t : t # timer),
                  !.suggestions = DebouncedSearchBody(nodes, timer.captured,
                                                      timer.searchTerm),
                  !.fired = {timer}]
    /\ UNCHANGED <<nodes, calls, lastCall, run, tracker, wrapped>>

NextFilter ==
    \/ \E options \in FilterOptions, g \in BOOLEAN : Render(options, g)
    \/ RunEffect
    \/ \E searchTerm \in FilterTerms : Search(searchTerm)
    \/ \E timer \in FilterTimers : Fire(timer)

SpecFilter == InitFilter /\ [][NextFilter]_vars

(* -------------------- useScrollTracker calculations -------------------- *)
\* null where a number is expected (entry.time, thresholds.active and
\* thresholds.next); times and thresholds are never negative here.
null == -1

\* null where a direction or a side of the viewport is expected.
nullSide == "null"

\* Array.prototype.sort with the comparator (a, b) => a - b.
RECURSIVE sortAscending(_)
sortAscending(values) ==
    IF values = <<>> THEN <<>>
    ELSE LET rest == sortAscending(Tail(values))
             notAfter == SelectSeq(rest, LAMBDA v : v <= Head(values))
             after == SelectSeq(rest, LAMBDA v : v > Head(values))
         IN  notAfter \o <<Head(values)>> \o after

\* An intersection ratio is a fraction num/den of the element's area.
\* currentPercentage = intersectionRatio * 100, for the ratios whose
\* percentage is a whole number.
currentPercentage(intersectionRatio) ==
    (intersectionRatio.num * 100) \div intersectionRatio.den

\* maxDistance: the distance in percentage points that normalises progress to -1 or 1.
progressMaxDistance == 25

\* Math.max(-1, Math.min(1, distance / maxDistance)), in units of
\* 1/progressMaxDistance: the value is normalizedProgress(...) / progressMaxDistance.
normalizedProgress(percentage, threshold) ==
    LET distance == percentage - threshold
    IN  IF distance < -progressMaxDistance THEN -progressMaxDistance
        ELSE IF distance > progressMaxDistance THEN progressMaxDistance
        ELSE distance

RECURSIVE MaxOf(_)
MaxOf(values) ==
    IF Len(values) = 1 THEN values[1]
    ELSE LET m == MaxOf(Tail(values))
         IN  IF Head(values) > m THEN Head(values) ELSE m

RECURSIVE MinOf(_)
MinOf(values) ==
    IF Len(values) = 1 THEN values[1]
    ELSE LET m == MinOf(Tail(values))
         IN  IF Head(values) < m THEN Head(values) ELSE m

\* The thresholds are kept in the order given.
calculateThresholdsUnsorted(intersectionRatio, thresholdValues) ==
    LET percentage == currentPercentage(intersectionRatio)
        crossed == SelectSeq(thresholdValues,
                             LAMBDA t : normalizedProgress(percentage, t) >= 0)
        active == IF crossed # <<>> THEN MaxOf(crossed) ELSE null
        nextThresholds == SelectSeq(thresholdValues, LAMBDA t : t > active)
    IN  [progress |-> [t \in {thresholdValues[i] : i \in 1..Len(thresholdValues)} |->
                           normalizedProgress(percentage, t)],
         crossed |-> crossed,
         active |-> active,
         next |-> IF crossed # <<>>
                  THEN IF nextThresholds # <<>> THEN MinOf(nextThresholds) ELSE null
                  ELSE IF thresholdValues # <<>> THEN thresholdValues[1] ELSE null]

\* calculateThresholds; progress[t] is the value stored under the key t.
calculateThresholds(intersectionRatio, thresholdValues) ==
    LET sortedThresholds == sortAscending(thresholdValues)
        percentage == currentPercentage(intersectionRatio)
        crossed == SelectSeq(sortedThresholds,
                             LAMBDA t : normalizedProgress(percentage, t) >= 0)
        active == IF crossed # <<>> THEN MaxOf(crossed) ELSE null
        \* thresholds.active || 0
        activeOrZero == IF active = 0 THEN 0 ELSE active
        nextThresholds == SelectSeq(sortedThresholds, LAMBDA t : t > activeOrZero)
    IN  [progress |-> [t \in {thresholdValues[i] : i \in 1..Len(thresholdValues)} |->
                           normalizedProgress(percentage, t)],
         crossed |-> crossed,
         active |-> active,
         next |-> IF crossed # <<>>
                  THEN IF nextThresholds # <<>> THEN MinOf(nextThresholds) ELSE null
                  ELSE IF sortedThresholds # <<>> THEN sortedThresholds[1] ELSE null]

\* The entry resets its time on every event in the viewport.
calculateEntryMetricsRestarting(isInViewport, wasInViewport, currentDirection, previousEntry, currentTime) ==
    IF isInViewport
    THEN [from |-> IF currentDirection = "down" THEN "top" ELSE "bottom",
          to |-> nullSide, time |-> currentTime, duration |-> 0]
    ELSE [previousEntry EXCEPT
              !.to = IF wasInViewport
                     THEN IF currentDirection = "down" THEN "bottom" ELSE "top"
                     ELSE @,
              !.duration = 0]

\* The duration is left as it was on entry.
calculateEntryMetricsKeepingDuration(isInViewport, wasInViewport, currentDirection, previousEntry, currentTime) ==
    IF isInViewport /\ ~wasInViewport
    THEN [previousEntry EXCEPT
              !.from = IF currentDirection = "down" THEN "top" ELSE "bottom",
              !.to = nullSide, !.time = currentTime]
    ELSE IF ~isInViewport
    THEN [previousEntry EXCEPT !.duration = 0]
    ELSE previousEntry

\* The exit forgets where the element came from.
calculateEntryMetricsForgetting(isInViewport, wasInViewport, currentDirection, previousEntry, currentTime) ==
    IF ~isInViewport /\ wasInViewport
    THEN [from |-> nullSide,
          to |-> IF currentDirection = "down" THEN "bottom" ELSE "top",
          time |-> null, duration |-> 0]
    ELSE previousEntry

calculateEntryMetrics(isInViewport, wasInViewport, currentDirection, previousEntry, currentTime) ==
    LET entered ==
            IF isInViewport /\ ~wasInViewport
            THEN [previousEntry EXCEPT
                      !.from = IF currentDirection = "down" THEN "top" ELSE "bottom",
                      !.to = nullSide,
                      !.time = currentTime]
            ELSE previousEntry
        exited ==
            IF ~isInViewport /\ wasInViewport
            THEN [entered EXCEPT
                      !.to = IF currentDirection = "down" THEN "bottom" ELSE "top"]
            ELSE entered
    IN  IF isInViewport /\ exited.time # null
        THEN [exited EXCEPT !.duration = currentTime - exited.time]
        ELSE IF ~isInViewport
        THEN [exited EXCEPT !.duration = 0]
        ELSE exited

detectDirection(currentScrollY, previousScrollY) ==
    IF currentScrollY = previousScrollY THEN nullSide
    ELSE IF currentScrollY > previousScrollY THEN "down" ELSE "up"

\* The calculations applied to drawn arguments.
Directions == {"up", "down", nullSide}
Sides == {"top", "bottom", nullSide}
Times == 0..MaxTime
EntryMetrics == [from : Sides, to : Sides, time : Times \cup {null}, duration : Times]
EntryInputs == BOOLEAN \X BOOLEAN \X Directions \X EntryMetrics \X Times

DefaultThresholds == <<0, 25, 50, 75, 100>>
ThresholdValues == {0, 25, 50, 75, 100}
ThresholdLists ==
    {DefaultThresholds} \cup UNION {[1..n -> ThresholdValues] : n \in 0..MaxThresholds}
Ratios ==
    {[num |-> n, den |-> d] : n \in 0..4, d \in {1, 2, 4}} \cup
    {[num |-> n, den |-> 100] : n \in {1, 24, 26, 99}}
ThresholdInputs ==
    {in \in Ratios \X ThresholdLists :
        /\ in[1].num <= in[1].den
        /\ (in[1].num * 100) % in[1].den = 0}

InitCalculations ==
    /\ nodes = EmptyTrie
    /\ calls = <<>>
    /\ \/ \E arg \in EntryInputs :
              lastCall = [op |-> "pending", function |-> "calculateEntryMetrics",
                          isInViewport |-> arg[1], wasInViewport |-> arg[2],
                          currentDirection |-> arg[3], previousEntry |-> arg[4],
                          currentTime |-> arg[5]]
       \/ \E arg \in ThresholdInputs :
              lastCall = [op |-> "pending", function |-> "calculateThresholds",
                          intersectionRatio |-> arg[1], thresholdValues |-> arg[2]]
    /\ run = Idle
    /\ hook = Unmounted
    /\ tracker = NoTracker
    /\ wrapped = Unwrapped

CalculateEntryMetrics ==
    /\ lastCall.op = "pending"
    /\ lastCall.function = "calculateEntryMetrics"
    /\ lastCall' = [op |-> "calculateEntryMetrics",
                    isInViewport |-> lastCall.isInViewport,
                    wasInViewport |-> lastCall.wasInViewport,
                    currentDirection |-> lastCall.currentDirection,
                    previousEntry |-> lastCall.previousEntry,
                    currentTime |-> lastCall.currentTime,
                    returned |-> calculateEntryMetrics(
                        lastCall.isInViewport, lastCall.wasInViewport,
                        lastCall.currentDirection, lastCall.previousEntry,
                        lastCall.currentTime)]
    /\ UNCHANGED <<nodes, calls, run, hook, tracker, wrapped>>

CalculateThresholds ==
    /\ lastCall.op = "pending"
    /\ lastCall.function = "calculateThresholds"
    /\ lastCall' = [op |-> "calculateThresholds",
                    intersectionRatio |-> lastCall.intersectionRatio,
                    thresholdValues |-> lastCall.thresholdValues,
                    returned |-> calculateThresholds(
                        lastCall.intersectionRatio, lastCall.thresholdValues)]
    /\ UNCHANGED <<nodes, calls, run, hook, tracker, wrapped>>

NextCalculations == CalculateEntryMetrics \/ CalculateThresholds

SpecCalculations == InitCalculations /\ [][NextCalculations]_vars

(* ---------------------------- ScrollTracker ---------------------------- *)
\* The callback functions of the callers, by identity.
Callbacks == {"f", "g"}

\* Values of window.scrollY.
ScrollPositions == {0, 1}

\* The velocity and inertia computed by calculateDynamics, reduced to two
\* readings that differ by at least the amounts the handlers call
\* significant: 0 is at rest (velocity 0, inertia 0, as in
\* initialMetricsState), 1 is scrolling (inertia 1).
DynamicsReadings == {0, 1}

\* calculateDynamics when no time has passed since the event before:
\* timeSinceLastScroll < 50, so inertia is 1.
DynamicsAtOnce == 1

\* What an IntersectionObserverEntry contributes to an intersection event:
\* isIntersecting and intersectionRatio.  The element does not move in the
\* document, so the normalised centre of boundingClientRect is given by the
\* scroll position.
Entries ==
    {e \in [isIntersecting : BOOLEAN,
            intersectionRatio : {[num |-> 0, den |-> 1], [num |-> 1, den |-> 2]}] :
        ~e.isIntersecting => e.intersectionRatio.num = 0}

\* calculatePositions: normalizedCenter, as a function of the scroll position.
normalizedCenter(scrollY) == scrollY

\* calculateVisibility: percentage = Math.round(intersectionRatio * 100).
visibilityPercentage(entry) == currentPercentage(entry.intersectionRatio)

\* The fields of ScrollMetrics that the handlers compare or that depend on
\* the tracker's history.
initialMetricsState ==
    [percentage |-> 0, normalizedCenter |-> 0, direction |-> nullSide, dynamics |-> 0,
     entry |-> [from |-> nullSide, to |-> nullSide, time |-> null, duration |-> 0]]

\* new ScrollTracker(element) in a browser, with the default options.  The
\* fields from scrollY on belong to the environment and to the callers: the
\* scroll position and the clock; the function of every registration made,
\* in the order of the onUpdate calls; the registrations whose own remover
\* was called; the registrations whose function was removed, by whichever
\* remover, or that were dropped by destroy(); the number of registrations
\* made before the last destroy(); the time of the most recent entry into
\* the viewport; the registration made by onUpdate when that is what ran
\* last, else 0; whether the handler that ran last started a round of
\* notifications; and the callback invocations it made, in order.
NewTracker ==
    [constructed |-> TRUE,
     metrics |-> initialMetricsState,
     updateCallbacks |-> <<>>,
     observing |-> TRUE,
     listening |-> TRUE,
     animationFrameId |-> null,
     frameRequested |-> FALSE,
     scrollRequestId |-> null,
     resizeTimeout |-> FALSE,
     reobserveTimeout |-> FALSE,
     previousScrollY |-> 0,
     isInViewport |-> FALSE,
     entryMetrics |-> [from |-> nullSide, to |-> nullSide, time |-> null, duration |-> 0],
     scrollY |-> 0,
     now |-> 0,
     registrations |-> <<>>,
     removed |-> {},
     ended |-> {},
     destroyed |-> FALSE,
     registeredAtDestroy |-> 0,
     enteredAt |-> null,
     registered |-> 0,
     notified |-> FALSE,
     invoked |-> <<>>]

\* What every handler starts from: nothing invoked yet.
Handling(t) == [t EXCEPT !.registered = 0, !.notified = FALSE, !.invoked = <<>>]

\* notifyUpdateCallbacks: forEach over updateCallbacks with this.metrics.
notifyUpdateCallbacks(t) ==
    [t EXCEPT !.notified = TRUE,
              !.invoked = [i \in 1..Len(t.updateCallbacks) |->
                              [registration |-> t.updateCallbacks[i].registration,
                               callback |-> t.updateCallbacks[i].callback,
                               metrics |-> t.metrics]]]

\* The callback is called but not kept.
onUpdateWithoutPush(t, callback) ==
    LET registration == Len(t.registrations) + 1
    IN  [Handling(t) EXCEPT
            !.registrations = Append(@, callback),
            !.registered = registration,
            !.invoked = <<[registration |-> registration, callback |-> callback,
                           metrics |-> t.metrics]>>]

\* onUpdate up to its return; the function it returns is remover below.
onUpdate(t, callback) ==
    LET registration == Len(t.registrations) + 1
    IN  [Handling(t) EXCEPT
            !.updateCallbacks = Append(@, [callback |-> callback,
                                           registration |-> registration]),
            !.registrations = Append(@, callback),
            !.registered = registration,
            !.invoked = <<[registration |-> registration, callback |-> callback,
                           metrics |-> t.metrics]>>]

\* The function returned by the onUpdate call that made this registration:
\* it filters updateCallbacks by the identity of the callback function.
remover(t, registration) ==
    [Handling(t) EXCEPT
        !.updateCallbacks =
            SelectSeq(@, LAMBDA cb : cb.callback # t.registrations[registration]),
        !.removed = @ \cup {registration},
        !.ended = @ \cup {r \in 1..Len(t.registrations) :
                              t.registrations[r] = t.registrations[registration]}]

\* The callbacks stay registered.
destroyKeepingCallbacks(t) ==
    [Handling(t) EXCEPT
        !.observing = FALSE, !.listening = FALSE,
        !.frameRequested = FALSE, !.animationFrameId = null,
        !.destroyed = TRUE,
        !.ended = 1..Len(t.registrations),
        !.registeredAtDestroy = Len(t.registrations)]

\* destroy: the observers are disconnected, the listeners removed, the frame
\* requested by handleScroll cancelled and the callbacks dropped.  The
\* timers of debounce, rafThrottle and handleResize are left pending.
destroy(t) ==
    [Handling(t) EXCEPT
        !.observing = FALSE, !.listening = FALSE,
        !.frameRequested = IF t.animationFrameId # null THEN FALSE ELSE @,
        !.animationFrameId = null,
        !.updateCallbacks = <<>>,
        !.destroyed = TRUE,
        !.ended = 1..Len(t.registrations),
        !.registeredAtDestroy = Len(t.registrations)]

\* handleIntersection for one entry, at clock reading now, where
\* calculateDynamics gives the reading dynamics.
handleIntersection(t, entry, now, dynamics) ==
    LET wasInViewport == t.isInViewport
        isInViewport == entry.isIntersecting
        direction == detectDirection(t.scrollY, t.previousScrollY)
        entryMetrics == calculateEntryMetrics(isInViewport, wasInViewport, direction, t.entryMetrics, now)
        newMetrics == [percentage |-> visibilityPercentage(entry),
                       normalizedCenter |-> normalizedCenter(t.scrollY),
                       direction |-> direction,
                       dynamics |-> dynamics,
                       entry |-> entryMetrics]
        handled == [Handling(t) EXCEPT
                       !.isInViewport = isInViewport,
                       !.previousScrollY = t.scrollY,
                       !.entryMetrics = entryMetrics,
                       !.now = now,
                       !.enteredAt = IF isInViewport /\ ~wasInViewport THEN now ELSE @]
    IN  IF \/ t.metrics.percentage # newMetrics.percentage
           \/ t.metrics.normalizedCenter # newMetrics.normalizedCenter
           \/ t.metrics.direction # direction
           \/ t.metrics.dynamics # newMetrics.dynamics
        THEN notifyUpdateCallbacks([handled EXCEPT !.metrics = newMetrics])
        ELSE handled

\* handleScroll: outside the viewport nothing; inside, the frame requested
\* before is cancelled and a new one requested.
handleScroll(t) ==
    IF ~t.isInViewport THEN t
    ELSE [t EXCEPT !.animationFrameId = 1, !.frameRequested = TRUE]

\* The callback handleScroll passes to requestAnimationFrame.
scrollFrame(t, dynamics) ==
    LET direction == detectDirection(t.scrollY, t.previousScrollY)
        handled == [Handling(t) EXCEPT
                       !.frameRequested = FALSE,
                       !.previousScrollY = t.scrollY]
    IN  IF t.metrics.direction # direction \/ t.metrics.dynamics # dynamics
        THEN notifyUpdateCallbacks(
                 [handled EXCEPT !.metrics = [@ EXCEPT !.direction = direction,
                                                       !.dynamics = dynamics]])
        ELSE handled

\* handleResize: disconnect now, observe again 100 ms later.
handleResize(t) == [t EXCEPT !.observing = FALSE, !.reobserveTimeout = TRUE]

InitTracker ==
    /\ nodes = EmptyTrie
    /\ calls = <<>>
    /\ lastCall = [op |-> "new"]
    /\ run = Idle
    /\ hook = Unmounted
    /\ tracker = NewTracker
    /\ wrapped = Unwrapped

Others == <<nodes, calls, lastCall, run, hook, wrapped>>

OnUpdate(callback) ==
    /\ Len(tracker.registrations) < MaxRegistrations
    /\ tracker' = onUpdate(tracker, callback)
    /\ UNCHANGED Others

Remover(registration) ==
    /\ registration <= Len(tracker.registrations)
    /\ tracker' = remover(tracker, registration)
    /\ UNCHANGED Others

Destroy ==
    /\ tracker' = destroy(tracker)
    /\ UNCHANGED Others

\* The IntersectionObserver delivers an entry while it observes the
\* element; performance.now() never runs backwards.
Intersection(entry, now, dynamics) ==
    /\ tracker.observing
    /\ now >= tracker.now
    /\ tracker' = handleIntersection(tracker, entry, now, dynamics)
    /\ UNCHANGED Others

\* The same, so soon after the event before that the clock reads the same.
IntersectionAtOnce(entry) == Intersection(entry, tracker.now, DynamicsAtOnce)

\* The window scrolls; the listener, while attached, is rafThrottle's
\* throttled function, which requests a frame unless one is outstanding.
Scroll(scrollY) ==
    /\ scrollY # tracker.scrollY
    /\ tracker' = [Handling(tracker) EXCEPT
                       !.scrollY = scrollY,
                       !.scrollRequestId =
                           IF tracker.listening /\ @ = null THEN 1 ELSE @]
    /\ UNCHANGED Others

\* rafThrottle's frame fires: requestId = null, then handleScroll.
ThrottledScrollFrame ==
    /\ tracker.scrollRequestId # null
    /\ tracker' = handleScroll([Handling(tracker) EXCEPT
                                    !.scrollRequestId = null])
    /\ UNCHANGED Others

\* The frame requested by handleScroll fires.
ScrollFrame(dynamics) ==
    /\ tracker.frameRequested
    /\ tracker' = scrollFrame(tracker, dynamics)
    /\ UNCHANGED Others

\* The window or the element is resized; the listener, while attached, is
\* debounce's function, which restarts its 200 ms timer.
Resize ==
    /\ tracker.listening
    /\ ~tracker.resizeTimeout
    /\ tracker' = [Handling(tracker) EXCEPT !.resizeTimeout = TRUE]
    /\ UNCHANGED Others

\* debounce's timer fires: handleResize.
ResizeTimeout ==
    /\ tracker.resizeTimeout
    /\ tracker' = handleResize([Handling(tracker) EXCEPT
                                    !.resizeTimeout = FALSE])
    /\ UNCHANGED Others

\* handleResize's timer fires: the observer observes the element again.
ReobserveTimeout ==
    /\ tracker.reobserveTimeout
    /\ tracker' = [Handling(tracker) EXCEPT
                       !.reobserveTimeout = FALSE, !.observing = TRUE]
    /\ UNCHANGED Others

\* Callers that register and destroy, and every event of the browser; the
\* clock is not followed.
NextTracker ==
    \/ \E callback \in Callbacks : OnUpdate(callback)
    \/ Destroy
    \/ \E entry \in Entries : IntersectionAtOnce(entry)
    \/ \E scrollY \in ScrollPositions : Scroll(scrollY)
    \/ ThrottledScrollFrame
    \/ \E dynamics \in DynamicsReadings : ScrollFrame(dynamics)
    \/ Resize
    \/ ResizeTimeout
    \/ ReobserveTimeout

SpecTracker == InitTracker /\ [][NextTracker]_vars

\* Callers that register, remove and destroy, while the observer reports on
\* an element in a window that is neither scrolled nor resized.
NextCallbacks ==
    \/ \E callback \in Callbacks : OnUpdate(callback)
    \/ \E registration \in 1..MaxRegistrations : Remover(registration)
    \/ Destroy
    \/ \E entry \in Entries : IntersectionAtOnce(entry)

SpecCallbacks == InitTracker /\ [][NextCallbacks]_vars

\* The browser alone, with the clock: a tracker nobody listens to.
NextEntries ==
    \/ \E entry \in Entries, now \in Times, dynamics \in DynamicsReadings :
           Intersection(entry, now, dynamics)
    \/ \E scrollY \in ScrollPositions : Scroll(scrollY)
    \/ ThrottledScrollFrame
    \/ \E dynamics \in DynamicsReadings : ScrollFrame(dynamics)

SpecEntries == InitTracker /\ [][NextEntries]_vars

(* ------------------- debounce, throttle, rafThrottle ------------------- *)
\* The argument lists passed to a wrapped function.
Arguments == {"p", "q"}

Rest == <<nodes, calls, lastCall, run, hook, tracker>>

\* A timer set by setTimeout, or a frame requested by requestAnimationFrame,
\* has the number of the call that set it as its id.  The fields calls and
\* invoked are kept by the callers and by func: the calls of the returned
\* function with the time of each, and the invocations of func with the
\* time of each and the number of calls made before it.
debounce(wait) ==
    [by |-> "debounce", wait |-> wait, now |-> 0, timeout |-> null, timers |-> {},
     calls |-> <<>>, invoked |-> <<>>]

\* Faulty variant: the timer set by the call before is not cleared.
debouncedWithoutClear(w, args) ==
    LET id == Len(w.calls) + 1
    IN  [w EXCEPT !.timers = @ \cup {[id |-> id, due |-> w.now + w.wait, args |-> args]},
                  !.timeout = id,
                  !.calls = Append(@, [args |-> args, at |-> w.now])]

\* The function returned by debounce: clearTimeout, then setTimeout.
debounced(w, args) ==
    LET id == Len(w.calls) + 1
        kept == IF w.timeout # null THEN {t \in w.timers : t.id # w.timeout} ELSE w.timers
    IN  [w EXCEPT !.timers = kept \cup {[id |-> id, due |-> w.now + w.wait, args |-> args]},
                  !.timeout = id,
                  !.calls = Append(@, [args |-> args, at |-> w.now])]

\* The callback of setTimeout: func.apply(context, args).
debounceTimer(w, timer) ==
    [w EXCEPT !.timers = @ \ {timer},
              !.invoked = Append(@, [args |-> timer.args, at |-> w.now,
                                     calls |-> Len(w.calls)])]

InitDebounce ==
    /\ nodes = EmptyTrie
    /\ calls = <<>>
    /\ lastCall = [op |-> "new"]
    /\ run = Idle
    /\ hook = Unmounted
    /\ tracker = NoTracker
    /\ wrapped \in {debounce(wait) : wait \in 0..MaxWait}

\* A millisecond passes.  Time is followed up to MaxClock and as far beyond
\* as a pending timer needs to become due; a timer may fire late.
Tick ==
    /\ \/ wrapped.now < MaxClock
       \/ \E t \in wrapped.timers : wrapped.now < t.due
    /\ wrapped' = [wrapped EXCEPT !.now = @ + 1]
    /\ UNCHANGED Rest

Debounced(args) ==
    /\ Len(wrapped.calls) < MaxWrappedCalls
    /\ wrapped.now <= MaxClock
    /\ wrapped' = debounced(wrapped, args)
    /\ UNCHANGED Rest

DebounceTimer(id) ==
    /\ \E t \in wrapped.timers :
           /\ t.id = id
           /\ wrapped.now >= t.due
           /\ wrapped' = debounceTimer(wrapped, t)
    /\ UNCHANGED Rest

TimerIds == 1..MaxWrappedCalls

NextDebounce ==
    \/ Tick
    \/ \E args \in Arguments : Debounced(args)
    \/ \E id \in TimerIds : DebounceTimer(id)

\* Time passes and the event loop runs a timer that is due.
SpecDebounce ==
    /\ InitDebounce
    /\ [][NextDebounce]_vars
    /\ WF_vars(Tick)
    /\ WF_vars(\E id \in TimerIds : DebounceTimer(id))

\* throttle(func, limit): lastFunc and lastRan start undefined.
throttle(limit) ==
    [by |-> "throttle", limit |-> limit, now |-> 0, inThrottle |-> FALSE,
     lastFunc |-> null, lastRan |-> null, timers |-> {},
     calls |-> <<>>, invoked |-> <<>>]

\* The function returned by throttle.  Outside the throttle it invokes func
\* and sets the timer that ends the throttle; inside, it replaces the
\* trailing timer, whose delay limit - (Date.now() - lastRan) counts as 0
\* when it is negative.
throttled(w, args) ==
    LET id == Len(w.calls) + 1
        called == [w EXCEPT !.calls = Append(@, [args |-> args, at |-> w.now])]
    IN  IF ~w.inThrottle
        THEN [called EXCEPT
                 !.invoked = Append(@, [args |-> args, at |-> w.now, calls |-> id]),
                 !.lastRan = w.now,
                 !.inThrottle = TRUE,
                 !.timers = @ \cup {[id |-> id, kind |-> "reset",
                                     due |-> w.now + w.limit, args |-> args]}]
        ELSE [called EXCEPT
                 !.timers = {t \in @ : t.id # w.lastFunc}
                            \cup {[id |-> id, kind |-> "trailing",
                                   due |-> IF w.lastRan + w.limit > w.now
                                           THEN w.lastRan + w.limit ELSE w.now,
                                   args |-> args]},
                 !.lastFunc = id]

\* The callback of the first setTimeout: inThrottle = false.
throttleReset(w, timer) == [w EXCEPT !.timers = @ \ {timer}, !.inThrottle = FALSE]

\* The callback of the second setTimeout: func, if limit ms have passed.
throttleTrailing(w, timer) ==
    IF w.now - w.lastRan >= w.limit
    THEN [w EXCEPT !.timers = @ \ {timer},
                   !.invoked = Append(@, [args |-> timer.args, at |-> w.now,
                                          calls |-> Len(w.calls)]),
                   !.lastRan = w.now]
    ELSE [w EXCEPT !.timers = @ \ {timer}]

InitThrottle ==
    /\ nodes = EmptyTrie
    /\ calls = <<>>
    /\ lastCall = [op |-> "new"]
    /\ run = Idle
    /\ hook = Unmounted
    /\ tracker = NoTracker
    /\ wrapped \in {throttle(limit) : limit \in 0..MaxWait}

Throttled(args) ==
    /\ Len(wrapped.calls) < MaxWrappedCalls
    /\ wrapped.now <= MaxClock
    /\ wrapped' = throttled(wrapped, args)
    /\ UNCHANGED Rest

ThrottleReset(id) ==
    /\ \E t \in wrapped.timers :
           /\ t.id = id /\ t.kind = "reset"
           /\ wrapped.now >= t.due
           /\ wrapped' = throttleReset(wrapped, t)
    /\ UNCHANGED Rest

ThrottleTrailing(id) ==
    /\ \E t \in wrapped.timers :
           /\ t.id = id /\ t.kind = "trailing"
           /\ wrapped.now >= t.due
           /\ wrapped' = throttleTrailing(wrapped, t)
    /\ UNCHANGED Rest

NextThrottle ==
    \/ Tick
    \/ \E args \in Arguments : Throttled(args)
    \/ \E id \in TimerIds : ThrottleReset(id)
    \/ \E id \in TimerIds : ThrottleTrailing(id)

SpecThrottle == InitThrottle /\ [][NextThrottle]_vars

\* rafThrottle(callback): no frame requested, lastArgs undefined.  frames
\* are the requests the browser has outstanding; cancelled is the number of
\* calls made before the last cancel().
rafThrottle ==
    [by |-> "rafThrottle", requestId |-> null, lastArgs |-> "undefined", frames |-> {},
     calls |-> <<>>, invoked |-> <<>>, cancelled |-> 0]

\* Faulty variant: every call requests a frame.
rafThrottledAlwaysRequesting(w, args) ==
    LET id == Len(w.calls) + 1
    IN  [w EXCEPT !.calls = Append(@, [args |-> args]),
                  !.lastArgs = args,
                  !.requestId = id,
                  !.frames = @ \cup {id}]

\* The throttled function: lastArgs = args, and a frame unless one is requested.
rafThrottled(w, args) ==
    LET id == Len(w.calls) + 1
        called == [w EXCEPT !.calls = Append(@, [args |-> args]), !.lastArgs = args]
    IN  IF w.requestId = null
        THEN [called EXCEPT !.requestId = id, !.frames = @ \cup {id}]
        ELSE called

\* later(context)(): requestId = null, then callback.apply(context, lastArgs).
later(w, frame) ==
    [w EXCEPT !.frames = @ \ {frame},
              !.requestId = null,
              !.invoked = Append(@, [args |-> w.lastArgs, calls |-> Len(w.calls),
                                     frame |-> frame])]

\* throttled.cancel
cancel(w) ==
    IF w.requestId # null
    THEN [w EXCEPT !.frames = @ \ {w.requestId}, !.requestId = null,
                   !.cancelled = Len(w.calls)]
    ELSE [w EXCEPT !.cancelled = Len(w.calls)]

InitRafThrottle ==
    /\ nodes = EmptyTrie
    /\ calls = <<>>
    /\ lastCall = [op |-> "new"]
    /\ run = Idle
    /\ hook = Unmounted
    /\ tracker = NoTracker
    /\ wrapped = rafThrottle

RafThrottled(args) ==
    /\ Len(wrapped.calls) < MaxWrappedCalls
    /\ wrapped' = rafThrottled(wrapped, args)
    /\ UNCHANGED Rest

\* The browser runs the callbacks of an animation frame.
AnimationFrame(frame) ==
    /\ frame \in wrapped.frames
    /\ wrapped' = later(wrapped, frame)
    /\ UNCHANGED Rest

Cancel ==
    /\ wrapped' = cancel(wrapped)
    /\ UNCHANGED Rest

NextRafThrottle ==
    \/ \E args \in Arguments : RafThrottled(args)
    \/ \E frame \in TimerIds : AnimationFrame(frame)
    \/ Cancel

SpecRafThrottle == InitRafThrottle /\ [][NextRafThrottle]_vars

(* ------------------------- reference notions --------------------------- *)
\* The Levenshtein distance by its textbook recurrence on the two strings.
RECURSIVE Levenshtein(_, _)
Levenshtein(a, b) ==
    IF a = <<>> THEN Len(b)
    ELSE IF b = <<>> THEN Len(a)
    ELSE IF Head(a) = Head(b) THEN Levenshtein(Tail(a), Tail(b))
    ELSE 1 + Min2(Min2(Levenshtein(Tail(a), b), Levenshtein(a, Tail(b))),
                  Levenshtein(Tail(a), Tail(b)))

\* The strings one single-character edit away from s, over Alphabet.
OneEdit(s) ==
    {SubSeq(s, 1, i - 1) \o SubSeq(s, i + 1, Len(s)) : i \in 1..Len(s)}
    \cup {SubSeq(s, 1, i) \o <<c>> \o SubSeq(s, i + 1, Len(s)) :
              i \in 0..Len(s), c \in Alphabet}
    \cup {[s EXCEPT ![i] = c] : i \in 1..Len(s), c \in Alphabet}

\* The least number of single-character edits that turn a string of
\* `reached' (all strings at most n edits from the start) into target.
RECURSIVE EditsTo(_, _, _)
EditsTo(reached, target, n) ==
    IF target \in reached THEN n
    ELSE EditsTo(reached \cup UNION {OneEdit(s) : s \in reached}, target, n + 1)

MinimumEdits(a, b) == EditsTo({a}, b, 0)

Range(seq) == {seq[i] : i \in 1..Len(seq)}

\* The multiset of the elements of a sequence.
BagOfSeq(seq) == [x \in Range(seq) |-> Cardinality({i \in 1..Len(seq) : seq[i] = x})]

\* The calls whose lower-cased search string lies within k edits of the
\* lower-cased query.
WithinBudget(q, k) ==
    {i \in 1..Len(calls) :
        Levenshtein(toLowerCase(q), toLowerCase(calls[i].searchString)) <= k}

IsPrefix(s, t) == Len(s) <= Len(t) /\ SubSeq(t, 1, Len(s)) = s

(* --------------------------- the test-suite ---------------------------- *)
\* The runs of the test-suite on a fresh trie: the fruit inserts of its tests,
\* each at most once and in the order of the tests, and searches with the
\* queries and budgets the tests use.
TestInserts ==
    <<[searchString |-> apple_, itemToAdd |-> "Apple fruit"],
      [searchString |-> apricot_, itemToAdd |-> "Apricot fruit"],
      [searchString |-> banana_, itemToAdd |-> "Banana fruit"]>>
TestQueries == {aple_, aprot_, banan_, app_, grape_, <<>>}
TestBudgets == {1, 2}

TestAddItemToTrie(i) ==
    /\ calls # <<>> => \E h \in 1..(i - 1) : TestInserts[h] = calls[Len(calls)]
    /\ nodes' = addItemToTrie(nodes, TestInserts[i].searchString, TestInserts[i].itemToAdd)
    /\ calls' = Append(calls, TestInserts[i])
    /\ lastCall' = [op |-> "addItemToTrie",
                    searchString |-> TestInserts[i].searchString,
                    itemToAdd |-> TestInserts[i].itemToAdd]
    /\ UNCHANGED <<run, hook, tracker, wrapped>>

NextTests ==
    \/ \E i \in 1..Len(TestInserts) : TestAddItemToTrie(i)
    \/ \E q \in TestQueries, k \in TestBudgets : SearchItems(q, k)
    \/ \E q \in TestQueries : SearchItemsDefault(q)

SpecTests == Init /\ [][NextTests]_vars

(* ------------------------------ claims --------------------------------- *)
DistanceReturned == lastCall.op = "calculateLevenshteinDistance"

Attributions ==
    {f \in [1..Len(lastCall.returned) -> 1..Len(calls)] :
        /\ \A i, j \in DOMAIN f : i # j => f[i] # f[j]
        /\ \A i \in DOMAIN f : calls[f[i]].itemToAdd = lastCall.returned[i]}

DistanceToQuery(i) ==
    Levenshtein(toLowerCase(lastCall.queryString), toLowerCase(calls[i].searchString))

\* C2: the returned items can be attributed to the entries they were stored
\* under so that the true distance to the query never decreases along the
\* returned sequence.
C2_OrderedByDistance ==
    Searched =>
        \E f \in Attributions :
            /\ \A i \in DOMAIN f : DistanceToQuery(f[i]) <= lastCall.maxAllowedDistance
            /\ \A i, j \in DOMAIN f :
                   i < j => DistanceToQuery(f[i]) <= DistanceToQuery(f[j])

\* A farther entry was discovered before a closer one and both are returned.
C2_Witness ==
    /\ Searched
    /\ Len(calls) = 2
    /\ Len(calls[1].searchString) = 1 /\ Len(calls[2].searchString) = 1
    /\ DistanceToQuery(1) > DistanceToQuery(2)
    /\ calls[1].itemToAdd # calls[2].itemToAdd
    /\ lastCall.returned = <<calls[2].itemToAdd, calls[1].itemToAdd>>

\* C3: with a finite budget the distance function returns the true distance
\* or the sentinel maxAllowed + 1, the sentinel only when the true distance
\* exceeds the budget; so the result is within the budget exactly when the
\* true distance is, and then equals it.
C3_DistanceOrSentinel ==
    (DistanceReturned /\ lastCall.maxAllowedDistance # Infinity) =>
        LET actual == Levenshtein(lastCall.firstString, lastCall.secondString)
            max == lastCall.maxAllowedDistance
            got == lastCall.returned
        IN /\ got = actual \/ got = max + 1
           /\ got = max + 1 => actual > max
           /\ (got <= max) <=> (actual <= max)
           /\ got <= max => got = actual

\* The row-minimum exit fires: equal lengths, true distance 3, budget 1.
C3_Witness ==
    /\ DistanceReturned
    /\ lastCall.maxAllowedDistance = 1
    /\ Len(lastCall.firstString) = Len(lastCall.secondString)
    /\ Levenshtein(lastCall.firstString, lastCall.secondString) = 3
    /\ lastCall.returned = 2

\* C4: with the budget omitted the distance function returns the minimum
\* number of single-character insertions, deletions and substitutions that
\* turn a into b; 3 for kitten/sitting and 2 for book/back.
C4_UnboundedDistanceIsMinimumEdits ==
    (DistanceReturned /\ lastCall.maxAllowedDistance = Infinity) =>
        /\ lastCall.returned = Levenshtein(lastCall.firstString, lastCall.secondString)
        /\ (lastCall.firstString \in Strs(MaxStringLen)
            /\ lastCall.secondString \in Strs(MaxStringLen)) =>
               lastCall.returned =
                   MinimumEdits(lastCall.firstString, lastCall.secondString)
        /\ (lastCall.firstString = kitten_ /\ lastCall.secondString = sitting_) =>
               lastCall.returned = 3
        /\ (lastCall.firstString = book_ /\ lastCall.secondString = back_) =>
               lastCall.returned = 2

C4_Witness ==
    /\ DistanceReturned
    /\ lastCall.maxAllowedDistance = Infinity
    /\ lastCall.firstString = kitten_
    /\ lastCall.secondString = sitting_
    /\ lastCall.returned = 3

\* Every string the workloads can pass.
KnownStrings ==
    UNION {{p[1] : p \in W.inserts} \cup W.queries : W \in Workloads}

\* The spellings of s: the strings with the same lower-case form.
Spellings(s) ==
    {toLowerCase(s)} \cup {t \in KnownStrings : toLowerCase(t) = toLowerCase(s)}

\* The trie built by the first n calls of cs on a new FuzzyTrie.
RECURSIVE Replay(_, _)
Replay(cs, n) ==
    IF n = 0 THEN EmptyTrie
    ELSE addItemToTrie(Replay(cs, n - 1), cs[n].searchString, cs[n].itemToAdd)

\* C5: respelling one inserted search string, or the query, with the same
\* lower-case form leaves the returned sequence unchanged; after
\* addItemToTrie("Apple", x) alone, searchItems("APPLE", 0) returns [x].
C5_OnlyLowerCaseFormsMatter ==
    Searched =>
        /\ \A i \in 1..Len(calls) :
               \A t \in Spellings(calls[i].searchString) :
                   searchItems(Replay([calls EXCEPT ![i].searchString = t], Len(calls)),
                               lastCall.queryString, lastCall.maxAllowedDistance)
                       = lastCall.returned
        /\ \A q \in Spellings(lastCall.queryString) :
               searchItems(nodes, q, lastCall.maxAllowedDistance) = lastCall.returned
        /\ (/\ Len(calls) = 1
            /\ calls[1].searchString = Apple_
            /\ lastCall.queryString = APPLE_
            /\ lastCall.maxAllowedDistance = 0)
               => lastCall.returned = <<calls[1].itemToAdd>>

C5_Witness ==
    /\ Searched
    /\ calls = <<[searchString |-> Apple_, itemToAdd |-> "Apple fruit"]>>
    /\ lastCall.queryString = APPLE_
    /\ lastCall.maxAllowedDistance = 0
    /\ lastCall.returned = <<"Apple fruit">>

\* C6: a search for the very string an item was inserted under returns that
\* item, for every budget (the default included) and whatever other calls
\* were made; and every returned item has an entry within the budget.
C6_OwnSearchStringRetrieves ==
    Searched =>
        /\ \A i \in 1..Len(calls) :
               calls[i].searchString = lastCall.queryString
                   => calls[i].itemToAdd \in Range(lastCall.returned)
        /\ \A x \in Range(lastCall.returned) :
               \E i \in WithinBudget(lastCall.queryString, lastCall.maxAllowedDistance) :
                   calls[i].itemToAdd = x

\* An exact search with budget 0 that returns its own item and leaves out
\* the item of a farther string.
C6_Witness ==
    /\ Searched
    /\ lastCall.maxAllowedDistance = 0
    /\ Len(calls) = 2
    /\ calls[1].searchString = lastCall.queryString
    /\ calls[1].searchString # toLowerCase(calls[1].searchString)
    /\ calls[2].itemToAdd # calls[1].itemToAdd
    /\ lastCall.returned = <<calls[1].itemToAdd>>

\* The node reached from the root along path, or 0 when the path leaves the trie.
RECURSIVE NodeAt(_, _, _, _)
NodeAt(heap, node, path, i) ==
    IF i > Len(path) THEN node
    ELSE IF MapHas(heap[node].childNodes, path[i])
         THEN NodeAt(heap, MapGet(heap[node].childNodes, path[i]), path, i + 1)
         ELSE 0

NodeOf(heap, path) == NodeAt(heap, rootNode, path, 1)

\* The calls whose search string has the lower-case form t.
CallsFor(t) == {i \in 1..Len(calls) : toLowerCase(calls[i].searchString) = t}

\* C7: n calls whose search strings share a lower-case form leave n entries
\* on one node, and a budget-0 search of that string returns all n items.
C7_DuplicatesAreKept ==
    \A i \in 1..Len(calls) :
        LET t == toLowerCase(calls[i].searchString)
            n == Cardinality(CallsFor(t))
            node == NodeOf(nodes, t)
        IN /\ node # 0
           /\ Len(nodes[node].associatedItems) = n
           /\ (/\ Searched
               /\ toLowerCase(lastCall.queryString) = t
               /\ lastCall.maxAllowedDistance = 0)
                  => /\ Len(lastCall.returned) = n
                     /\ BagOfSeq(lastCall.returned) =
                            [x \in {calls[j].itemToAdd : j \in CallsFor(t)} |->
                                Cardinality({j \in CallsFor(t) : calls[j].itemToAdd = x})]

\* The identical pair was inserted twice and both copies are returned.
C7_Witness ==
    /\ Searched
    /\ lastCall.maxAllowedDistance = 0
    /\ Len(calls) = 2
    /\ calls[1] = calls[2]
    /\ calls[1].searchString # <<>>
    /\ Len(lastCall.returned) = 2

\* C8: addItemToTrie(s, x) leaves the node of lowercase(s) existing and
\* terminal, with {x, lowercase(s)} as its last entry behind the entries the
\* node held before, in their previous order.
C8_InsertAppendsAtTheNode ==
    [][Len(calls') = Len(calls) + 1 =>
          LET c == calls'[Len(calls')]
              t == toLowerCase(c.searchString)
              before == NodeOf(nodes, t)
              after == NodeOf(nodes', t)
              held == IF before = 0 THEN <<>> ELSE nodes[before].associatedItems
          IN /\ after # 0
             /\ before # 0 => after = before
             /\ nodes'[after].isCompleteWord
             /\ nodes'[after].associatedItems =
                    Append(held, [storedItem |-> c.itemToAdd,
                                  associatedSearchString |-> t])]_vars

\* An insert reached a node that already held an entry of another item.
C8_Witness ==
    /\ lastCall.op = "addItemToTrie"
    /\ Len(calls) = 2
    /\ toLowerCase(calls[1].searchString) = toLowerCase(calls[2].searchString)
    /\ calls[1].searchString # calls[2].searchString
    /\ calls[1].itemToAdd # calls[2].itemToAdd
    /\ Len(nodes[NodeOf(nodes, toLowerCase(calls[2].searchString))].associatedItems) = 2

\* The characters on the way from the root to node n.
RECURSIVE PathOf(_, _)
PathOf(heap, n) ==
    IF n = rootNode THEN <<>>
    ELSE LET parent == CHOOSE m \in 1..Len(heap) :
                           \E j \in 1..Len(heap[m].childNodes) :
                               heap[m].childNodes[j].node = n
             j == CHOOSE j \in 1..Len(heap[parent].childNodes) :
                      heap[parent].childNodes[j].node = n
         IN Append(PathOf(heap, parent), heap[parent].childNodes[j].char)

\* C9: a node is terminal iff its entry list is non-empty, iff some
\* addItemToTrie call passed a search string whose lower-case form is the
\* node's prefix.
C9_TerminalIffEntriesIffInserted ==
    \A n \in 1..Len(nodes) :
        /\ nodes[n].isCompleteWord <=> nodes[n].associatedItems # <<>>
        /\ nodes[n].associatedItems # <<>> <=> CallsFor(PathOf(nodes, n)) # {}

\* A terminal node below a non-terminal inner node, the root non-terminal.
C9_Witness ==
    /\ lastCall.op = "addItemToTrie"
    /\ ~nodes[rootNode].isCompleteWord
    /\ \E n, m \in 2..Len(nodes) :
           /\ ~nodes[n].isCompleteWord
           /\ nodes[m].isCompleteWord
           /\ PathOf(nodes, m) = Append(PathOf(nodes, n), "b")

RECURSIVE TotalEntries(_, _)
TotalEntries(heap, n) ==
    IF n = 0 THEN 0 ELSE TotalEntries(heap, n - 1) + Len(heap[n].associatedItems)

\* C10: in every step no node, entry or terminal flag goes away, each node's
\* entry list (and child map) is extended at its end only, the number of
\* entries is the number of addItemToTrie calls, and what the last search
\* returned is returned again by the same search on the changed trie.
C10_TrieOnlyGrows ==
    [][/\ Len(nodes') >= Len(nodes)
       /\ \A n \in 1..Len(nodes) :
              /\ nodes[n].isCompleteWord => nodes'[n].isCompleteWord
              /\ IsPrefix(nodes[n].associatedItems, nodes'[n].associatedItems)
              /\ IsPrefix(nodes[n].childNodes, nodes'[n].childNodes)
       /\ TotalEntries(nodes, Len(nodes)) = Len(calls)
       /\ TotalEntries(nodes', Len(nodes')) = Len(calls')
       /\ (Searched /\ nodes' # nodes) =>
              BagOfSeq(lastCall.returned) \sqsubseteq
                  BagOfSeq(searchItems(nodes', lastCall.queryString,
                                       lastCall.maxAllowedDistance))]_vars

\* A second insert followed a first one and a search now returns both items.
C10_Witness ==
    /\ Searched
    /\ Len(calls) = 2
    /\ Len(nodes) >= 3
    /\ Len(lastCall.returned) = 2
    /\ lastCall.maxAllowedDistance = 1

\* C11: a searchItems call changes no node, terminal flag or entry list (nor
\* the record of inserts), and a search that directly follows a search with
\* the same query and budget returns the identical sequence.
C11_SearchIsAStatelessRead ==
    [][lastCall'.op = "searchItems" =>
          /\ nodes' = nodes
          /\ calls' = calls
          /\ (/\ Searched
              /\ lastCall'.queryString = lastCall.queryString
              /\ lastCall'.maxAllowedDistance = lastCall.maxAllowedDistance)
                 => lastCall'.returned = lastCall.returned]_vars

\* A search returned both stored items and every entry is still in the trie.
C11_Witness ==
    /\ Searched
    /\ Len(calls) = 2
    /\ Len(lastCall.returned) = 2
    /\ TotalEntries(nodes, Len(nodes)) = 2
    /\ lastCall.budgetOmitted

\* The absolute difference of the lengths of the two arguments.
LengthGap ==
    IF Len(lastCall.firstString) >= Len(lastCall.secondString)
    THEN Len(lastCall.firstString) - Len(lastCall.secondString)
    ELSE Len(lastCall.secondString) - Len(lastCall.firstString)

C13_DistanceToItselfIsZero ==
    (DistanceReturned /\ lastCall.firstString = lastCall.secondString)
        => lastCall.returned = 0

\* Equal non-empty strings with a negative budget.
C13_Witness ==
    /\ DistanceReturned
    /\ lastCall.firstString = lastCall.secondString
    /\ Len(lastCall.firstString) = 2
    /\ lastCall.maxAllowedDistance < 0
    /\ lastCall.maxAllowedDistance # Infinity
    /\ lastCall.returned = 0

C15_EmptyTrieFindsNothing ==
    (Searched /\ calls = <<>>) => lastCall.returned = <<>>

\* The empty query with a budget above 0 on the empty trie.
C15_Witness ==
    /\ Searched
    /\ calls = <<>>
    /\ lastCall.queryString = <<>>
    /\ lastCall.maxAllowedDistance = 1
    /\ lastCall.returned = <<>>

\* C16: searchItems(q) without a budget returns what searchItems(q, 2) returns.
C16_DefaultBudgetIsTwo ==
    (Searched /\ lastCall.budgetOmitted) =>
        lastCall.returned = searchItems(nodes, lastCall.queryString, 2)

\* A default-budget search whose result a budget of 1 would not give and that
\* leaves a stored entry out.
C16_Witness ==
    /\ Searched
    /\ lastCall.budgetOmitted
    /\ lastCall.returned # <<>>
    /\ Len(lastCall.returned) < Len(calls)
    /\ searchItems(nodes, lastCall.queryString, 1) = <<>>

\* The items of the calls whose lower-cased search string has at most k
\* characters, in call order.
RECURSIVE ItemsOfLengthAtMost(_, _)
ItemsOfLengthAtMost(k, n) ==
    IF n = 0 THEN <<>>
    ELSE IF Len(toLowerCase(calls[n].searchString)) <= k
         THEN Append(ItemsOfLengthAtMost(k, n - 1), calls[n].itemToAdd)
         ELSE ItemsOfLengthAtMost(k, n - 1)

\* C17: searchItems("", k) returns exactly the items whose lower-cased search
\* string has at most k characters; with only "apple" and "banana" stored and
\* the default budget that is nothing.
C17_EmptyQueryMatchesByLength ==
    (Searched /\ lastCall.queryString = <<>>) =>
        /\ BagOfSeq(lastCall.returned) =
               BagOfSeq(ItemsOfLengthAtMost(lastCall.maxAllowedDistance, Len(calls)))
        /\ (/\ lastCall.budgetOmitted
            /\ \A i \in 1..Len(calls) : calls[i].searchString \in {apple_, banana_})
               => lastCall.returned = <<>>

\* The empty query returned one stored item and left the other, longer one out.
C17_Witness ==
    /\ Searched
    /\ lastCall.queryString = <<>>
    /\ Len(calls) = 2
    /\ Len(lastCall.returned) = 1
    /\ \E i \in 1..2 : Len(calls[i].searchString) > lastCall.maxAllowedDistance

\* The empty query with the default budget on the trie of "apple" and "banana".
C17_FruitWitness ==
    /\ Searched
    /\ lastCall.queryString = <<>>
    /\ lastCall.budgetOmitted
    /\ {calls[i].searchString : i \in 1..Len(calls)} = {apple_, banana_}
    /\ lastCall.returned = <<>>

\* C18: with ("apple", "Apple fruit"), ("apricot", "Apricot fruit") and
\* ("banana", "Banana fruit") inserted, searchItems("app", 2) returns exactly
\* two items, among them "Apple fruit" and "Apricot fruit" and not "Banana
\* fruit".
C18_AppFindsAppleAndApricot ==
    (/\ Searched
     /\ calls = TestInserts
     /\ lastCall.queryString = app_
     /\ lastCall.maxAllowedDistance = 2
     /\ ~lastCall.budgetOmitted)
        => /\ Len(lastCall.returned) = 2
           /\ "Apple fruit" \in Range(lastCall.returned)
           /\ "Apricot fruit" \in Range(lastCall.returned)
           /\ "Banana fruit" \notin Range(lastCall.returned)

\* What the search of C18 returns: "apricot" is five edits from "app".
C18_AppFindsAppleOnly ==
    (/\ Searched
     /\ calls = TestInserts
     /\ lastCall.queryString = app_
     /\ lastCall.maxAllowedDistance = 2)
        => /\ lastCall.returned = <<"Apple fruit">>
           /\ Levenshtein(app_, apricot_) = 5

\* A call is in progress / has thrown.
Running == run.pc \notin {"idle", "threw"}
HasThrown == run.pc = "threw"

StepsAgreeWithDefinitions ==
    /\ Searched => lastCall.returned =
           searchItems(nodes, lastCall.queryString, lastCall.maxAllowedDistance)
    /\ run = Idle => nodes = Replay(calls, Len(calls))
    /\ (run.pc = "calculateLevenshteinDistance" /\ run.distance.pc = "returned")
           => run.distance.returned =
                  calculateLevenshteinDistance(run.distance.firstString,
                      run.distance.secondString, run.distance.maxAllowedDistance)

\* The first n elements of a sequence, or all of it when it is shorter.
FirstN(seq, n) == [i \in 1..(IF n < Len(seq) THEN n ELSE Len(seq)) |-> seq[i]]

\* C20: when a debounced search(term) has just fired, suggestions is [] if
\* term is shorter than the minSearchLength of the function that fired and
\* otherwise the first maxResults items of searchItems(term, maxDistance) on
\* the hook's trie; suggestions never holds more than the hook's maxResults
\* items and is always a prefix of a searchItems result.
C20_SuggestionsWithinMaxResults ==
    hook.mounted =>
        /\ \A timer \in hook.fired :
               hook.suggestions =
                   IF Len(timer.searchTerm) < timer.captured.minSearchLength THEN <<>>
                   ELSE FirstN(searchItems(nodes, timer.searchTerm,
                                           timer.captured.maxDistance),
                               timer.captured.maxResults)
        /\ Len(hook.suggestions) <= hook.options.maxResults
        /\ \E searchTerm \in FilterTerms, maxDistance \in {0, 2},
              trie \in {EffectTrie(o.items, Len(o.items)) : o \in FilterOptions} :
               IsPrefix(hook.suggestions, searchItems(trie, searchTerm, maxDistance))

\* What holds of the hook: a timer that has just fired set suggestions from
\* the values its function captured, so suggestions holds no more items than
\* the largest maxResults of any render so far allows, and is a prefix of a
\* searchItems result on a trie the effect built.
C20_FiredWithCapturedValues ==
    hook.mounted =>
        /\ \A timer \in hook.fired :
               /\ hook.suggestions =
                      IF Len(timer.searchTerm) < timer.captured.minSearchLength
                      THEN <<>>
                      ELSE FirstN(searchItems(nodes, timer.searchTerm,
                                              timer.captured.maxDistance),
                                  timer.captured.maxResults)
               /\ Len(hook.suggestions) <= timer.captured.maxResults
        /\ \E searchTerm \in FilterTerms, maxDistance \in {0, 2},
              trie \in {EffectTrie(o.items, Len(o.items)) : o \in FilterOptions} :
               IsPrefix(hook.suggestions, searchItems(trie, searchTerm, maxDistance))

EntryMetricsReturned == lastCall.op = "calculateEntryMetrics"

\* C24: calculateEntryMetrics on a transition from outside to inside the
\* viewport sets from to "top" when the direction is "down" and to "bottom"
\* otherwise, sets to to null, time to the current time and duration to 0.
C24_EntrySetsFromToTimeAndDuration ==
    (EntryMetricsReturned /\ lastCall.isInViewport /\ ~lastCall.wasInViewport) =>
        /\ lastCall.returned.from =
               IF lastCall.currentDirection = "down" THEN "top" ELSE "bottom"
        /\ lastCall.returned.to = nullSide
        /\ lastCall.returned.time = lastCall.currentTime
        /\ lastCall.returned.duration = 0

\* An entry scrolling down, after an earlier visit that had ended.
C24_Witness ==
    /\ EntryMetricsReturned
    /\ lastCall.isInViewport /\ ~lastCall.wasInViewport
    /\ lastCall.currentDirection = "down"
    /\ lastCall.previousEntry.to = "bottom"
    /\ lastCall.previousEntry.duration > 0
    /\ lastCall.previousEntry.time # lastCall.currentTime
    /\ lastCall.returned.from = "top"

\* C25: calculateEntryMetrics on a transition from inside to outside the
\* viewport sets to to "bottom" when the direction is "down" and to "top"
\* otherwise, resets duration to 0, and keeps from and time as they were.
C25_ExitSetsToAndKeepsFromAndTime ==
    (EntryMetricsReturned /\ lastCall.wasInViewport /\ ~lastCall.isInViewport) =>
        /\ lastCall.returned.to =
               IF lastCall.currentDirection = "down" THEN "bottom" ELSE "top"
        /\ lastCall.returned.duration = 0
        /\ lastCall.returned.from = lastCall.previousEntry.from
        /\ lastCall.returned.time = lastCall.previousEntry.time

\* The exit of the test-suite: entered from the top, left scrolling down.
C25_Witness ==
    /\ EntryMetricsReturned
    /\ lastCall.wasInViewport /\ ~lastCall.isInViewport
    /\ lastCall.currentDirection = "down"
    /\ lastCall.previousEntry.from = "top"
    /\ lastCall.previousEntry.to = nullSide
    /\ lastCall.previousEntry.time # null
    /\ lastCall.previousEntry.duration > 0
    /\ lastCall.returned.to = "bottom"

ThresholdsReturned == lastCall.op = "calculateThresholds"

\* C27: calculateThresholds(ratio, T), for whole percentages p = ratio x 100:
\* crossed lists in ascending order exactly the thresholds t of T with
\* t <= p; active is the largest crossed threshold, or null when none is
\* crossed; next is the smallest threshold greater than active, or the
\* smallest threshold of T when none is crossed, or null when there is no
\* such threshold; the progress of a threshold is 0 at p, positive below p
\* and negative above p.
C27_CrossedActiveAndNext ==
    ThresholdsReturned =>
        LET T == lastCall.thresholdValues
            p == (lastCall.intersectionRatio.num * 100) \div lastCall.intersectionRatio.den
            r == lastCall.returned
            reached == {i \in 1..Len(T) : T[i] <= p}
            above == {T[i] : i \in {j \in 1..Len(T) : r.active # null /\ T[j] > r.active}}
        IN  /\ \A i, j \in 1..Len(r.crossed) : i < j => r.crossed[i] <= r.crossed[j]
            /\ BagOfSeq(r.crossed) = BagOfSeq([i \in 1..Cardinality(reached) |->
                   T[CHOOSE k \in reached : Cardinality({m \in reached : m < k}) = i - 1]])
            /\ r.active = IF reached = {} THEN null
                          ELSE CHOOSE t \in {T[i] : i \in reached} :
                                   \A i \in reached : T[i] <= t
            /\ r.next = IF reached = {}
                        THEN IF T = <<>> THEN null
                             ELSE CHOOSE t \in {T[i] : i \in 1..Len(T)} :
                                      \A i \in 1..Len(T) : t <= T[i]
                        ELSE IF above = {} THEN null
                        ELSE CHOOSE t \in above : \A u \in above : t <= u
            /\ \A i \in 1..Len(T) :
                   /\ r.progress[T[i]] = 0 <=> T[i] = p
                   /\ r.progress[T[i]] > 0 <=> T[i] < p
                   /\ r.progress[T[i]] < 0 <=> T[i] > p

\* The call of the test-suite: half visible, with the default thresholds.
C27_Witness ==
    /\ ThresholdsReturned
    /\ lastCall.intersectionRatio = [num |-> 1, den |-> 2]
    /\ lastCall.thresholdValues = DefaultThresholds
    /\ lastCall.returned.crossed = <<0, 25, 50>>
    /\ lastCall.returned.active = 50
    /\ lastCall.returned.next = 75
    /\ lastCall.returned.progress[50] = 0

\* Thresholds given out of order, with one of them crossed and one not.
C27_UnsortedWitness ==
    /\ ThresholdsReturned
    /\ lastCall.intersectionRatio = [num |-> 1, den |-> 4]
    /\ lastCall.thresholdValues = <<50, 0>>
    /\ lastCall.returned.crossed = <<0>>
    /\ lastCall.returned.next = 50

\* The invocations of registration r made by the handler that ran last.
InvocationsOf(r) ==
    {i \in 1..Len(tracker.invoked) : tracker.invoked[i].registration = r}

\* Registration r was called once, as its own function and with the metrics
\* the tracker holds now.
NotifiedOnce(r) ==
    /\ Cardinality(InvocationsOf(r)) = 1
    /\ \A i \in InvocationsOf(r) :
           /\ tracker.invoked[i].callback = tracker.registrations[r]
           /\ tracker.invoked[i].metrics = tracker.metrics

C21_RegisteredWitness ==
    /\ tracker.constructed
    /\ tracker.registered = 2
    /\ tracker.metrics # initialMetricsState
    /\ tracker.invoked[1].metrics = tracker.metrics

\* C22: the function returned by onUpdate(cb) removes that registration
\* only: a registration whose remover was called is not invoked by later
\* rounds, and every other registration made since the last destroy(), a
\* second registration of the same function included, is invoked by the next.
C22_RemoverRemovesOneRegistration ==
    (tracker.constructed /\ tracker.notified) =>
        \A r \in 1..Len(tracker.registrations) :
            IF r \in tracker.removed \/ r <= tracker.registeredAtDestroy
            THEN InvocationsOf(r) = {}
            ELSE NotifiedOnce(r)

C26_UnpublishedWitness ==
    /\ tracker.constructed
    /\ tracker.isInViewport
    /\ tracker.entryMetrics.to = nullSide
    /\ tracker.entryMetrics.duration = 1
    /\ tracker.metrics.entry.to # nullSide

\* The first call whose lower-cased search string starts with prefix: the
\* call that created the node of that path.
CreatedBy(prefix) ==
    CHOOSE i \in 1..Len(calls) :
        /\ IsPrefix(prefix, toLowerCase(calls[i].searchString))
        /\ \A j \in 1..(i - 1) : ~IsPrefix(prefix, toLowerCase(calls[j].searchString))

\* The entry of call i is discovered before that of call j: on the same node
\* in insertion order, on an ancestor before its descendants, and otherwise
\* in the order in which the two children were created where the paths part.
DiscoveredBefore(i, j) ==
    LET s == toLowerCase(calls[i].searchString)
        t == toLowerCase(calls[j].searchString)
    IN  IF s = t THEN i < j
        ELSE IF IsPrefix(s, t) THEN TRUE
        ELSE IF IsPrefix(t, s) THEN FALSE
        ELSE LET k == CHOOSE k \in 1..Len(s) :
                          /\ s[k] # t[k]
                          /\ SubSeq(s, 1, k - 1) = SubSeq(t, 1, k - 1)
             IN  CreatedBy(SubSeq(s, 1, k)) < CreatedBy(SubSeq(t, 1, k))

ReturnedBefore(i, j) ==
    \/ DistanceToQuery(i) < DistanceToQuery(j)
    \/ DistanceToQuery(i) = DistanceToQuery(j) /\ DiscoveredBefore(i, j)

\* C28: searchItems returns the items of the entries within the budget by
\* distance and, among entries at equal distance, in discovery order:
\* depth-first pre-order of the trie, a node's own entries before those of
\* its descendants, children in the order they were first created, and the
\* entries of one node in insertion order.
C28_TiesKeepDiscoveryOrder ==
    Searched =>
        LET within == WithinBudget(lastCall.queryString, lastCall.maxAllowedDistance)
            place(n) == CHOOSE i \in within :
                            Cardinality({j \in within \ {i} : ReturnedBefore(j, i)}) = n - 1
        IN  lastCall.returned =
                [n \in 1..Cardinality(within) |-> calls[place(n)].itemToAdd]

\* Two entries at equal distance, the one inserted later on an ancestor of
\* the other's node: it is returned first.
C28_Witness ==
    /\ Searched
    /\ Len(calls) = 2
    /\ toLowerCase(calls[1].searchString) = <<"a", "b">>
    /\ toLowerCase(calls[2].searchString) = <<"a">>
    /\ calls[1].itemToAdd = "x" /\ calls[2].itemToAdd = "y"
    /\ lastCall.queryString = <<"b">>
    /\ lastCall.returned = <<"y", "x">>

\* Two entries at equal distance on sibling nodes, the child of the later
\* letter created first: it is returned first.
C28_SiblingWitness ==
    /\ Searched
    /\ Len(calls) = 2
    /\ toLowerCase(calls[1].searchString) = <<"b">>
    /\ toLowerCase(calls[2].searchString) = <<"a">>
    /\ calls[1].itemToAdd = "x" /\ calls[2].itemToAdd = "y"
    /\ lastCall.queryString = <<>>
    /\ lastCall.returned = <<"x", "y">>

\* A call of calculateLevenshteinDistance is in progress, made directly or by
\* searchItems, and its inner loop has just completed a row.
RowCompleted ==
    /\ run.pc \in {"calculateLevenshteinDistance", "searchItems"}
    /\ run.distance # Idle
    /\ run.distance.pc = "inner"
    /\ run.distance.compareIndex > Len(run.distance.firstString)

\* C29: the minimum of every completed row of the dynamic program, column 0
\* included, is a lower bound of the distance of the two strings, and is not
\* below the minimum of the row before; so the row-minimum exit, which
\* returns maxAllowed + 1, is taken only when the distance exceeds maxAllowed.
C29_RowMinimaBoundTheDistance ==
    /\ [](RowCompleted =>
              LET d == run.distance
              IN  /\ d.minimumDistanceInRow = MinOf(d.currentDistanceRow)
                  /\ d.minimumDistanceInRow <= Levenshtein(d.firstString, d.secondString)
                  /\ d.minimumDistanceInRow >= MinOf(d.previousDistanceRow))
    /\ [][(/\ RowCompleted
           /\ GreaterThan(run.distance.minimumDistanceInRow, run.distance.maxAllowedDistance)) =>
              /\ run'.distance.pc = "returned"
              /\ run'.distance.returned = PlusOne(run.distance.maxAllowedDistance)
              /\ GreaterThan(Levenshtein(run.distance.firstString, run.distance.secondString),
                             run.distance.maxAllowedDistance)]_vars

\* The first of two rows is complete and its minimum, above that of the
\* initial row, already exceeds the budget: the exit is about to be taken.
C29_Witness ==
    /\ RowCompleted
    /\ Len(run.distance.firstString) = 2
    /\ run.distance.currentIndex = 1
    /\ Len(run.distance.secondString) = 2
    /\ run.distance.minimumDistanceInRow > MinOf(run.distance.previousDistanceRow)
    /\ GreaterThan(run.distance.minimumDistanceInRow, run.distance.maxAllowedDistance)

\* What the call returns with its two strings exchanged.
ReturnedExchanged ==
    calculateLevenshteinDistance(lastCall.secondString, lastCall.firstString,
                                 lastCall.maxAllowedDistance)

\* C30, as stated: for all strings a and b, of equal or different length, and
\* every maxAllowed, calculateLevenshteinDistance(a, b, maxAllowed) returns
\* the same value as calculateLevenshteinDistance(b, a, maxAllowed).
C30_Original ==
    DistanceReturned => lastCall.returned = ReturnedExchanged

\* C30: for strings a and b of different length, which the orientation swap
\* puts in the same order whichever comes first, and every maxAllowed,
\* calculateLevenshteinDistance(a, b, maxAllowed) and
\* calculateLevenshteinDistance(b, a, maxAllowed) return the same value; for
\* strings of equal length, which are not swapped, the two values are equal
\* or both exceed maxAllowed.
C30_ExchangedArguments ==
    DistanceReturned =>
        IF Len(lastCall.firstString) # Len(lastCall.secondString)
        THEN lastCall.returned = ReturnedExchanged
        ELSE \/ lastCall.returned = ReturnedExchanged
             \/ /\ GreaterThan(lastCall.returned, lastCall.maxAllowedDistance)
                /\ GreaterThan(ReturnedExchanged, lastCall.maxAllowedDistance)

\* The longer string first, so that the call swaps, with a budget that
\* lets the dynamic program run to its end.
C30_Witness ==
    /\ DistanceReturned
    /\ lastCall.firstString = sitting_
    /\ lastCall.secondString = kitten_
    /\ lastCall.maxAllowedDistance = Infinity
    /\ lastCall.returned = 3

\* Two strings of equal length beyond the budget: one order leaves the loop
\* at a row minimum, the other runs to the end with the full distance.
C30_EqualLengthWitness ==
    /\ DistanceReturned
    /\ lastCall.firstString = aaabb_
    /\ lastCall.secondString = babaa_
    /\ lastCall.maxAllowedDistance = 2
    /\ lastCall.returned = 4
    /\ ReturnedExchanged = 3

\* The links of the heap: <<m, j>> is the j-th child entry of node m.
Links(heap) == {l \in (1..Len(heap)) \X (1..Len(heap)) : l[2] <= Len(heap[l[1]].childNodes)}

LinksTo(heap, n) == {l \in Links(heap) : heap[l[1]].childNodes[l[2]].node = n}

\* The nodes reached from the nodes of reached over child links.
RECURSIVE ReachedFrom(_, _)
ReachedFrom(heap, reached) ==
    LET more == reached \cup {heap[l[1]].childNodes[l[2]].node :
                                  l \in {k \in Links(heap) : k[1] \in reached}}
    IN IF more = reached THEN reached ELSE ReachedFrom(heap, more)

\* C31: the heap is a tree under the root (every child link leads to a node
\* of the heap, the root has no parent, every other node has exactly one
\* parent link and is reached from the root, and the children of a node have
\* different characters), every character on a link is lower-case, and every
\* entry of a node carries the node's path as its search string.
C31_TreeOfLowerCasePaths ==
    /\ \A l \in Links(nodes) : nodes[l[1]].childNodes[l[2]].node \in 1..Len(nodes)
    /\ LinksTo(nodes, rootNode) = {}
    /\ \A n \in 2..Len(nodes) : Cardinality(LinksTo(nodes, n)) = 1
    /\ ReachedFrom(nodes, {rootNode}) = 1..Len(nodes)
    /\ \A m \in 1..Len(nodes) : \A i, j \in 1..Len(nodes[m].childNodes) :
           nodes[m].childNodes[i].char = nodes[m].childNodes[j].char => i = j
    /\ \A l \in Links(nodes) :
           toLowerCase(<<nodes[l[1]].childNodes[l[2]].char>>) =
               <<nodes[l[1]].childNodes[l[2]].char>>
    /\ \A n \in 1..Len(nodes) : \A e \in 1..Len(nodes[n].associatedItems) :
           /\ nodes[n].associatedItems[e].associatedSearchString = PathOf(nodes, n)
           /\ NodeOf(nodes, PathOf(nodes, n)) = n

\* A mixed-case search string was inserted next to one that shares its first
\* character: the root's child has two children and a node two levels down
\* holds an entry.
C31_Witness ==
    /\ Len(calls) = 2
    /\ calls[1].searchString = <<"A", "b">>
    /\ calls[2].searchString = <<"a", "a">>
    /\ Len(nodes) = 4
    /\ Len(nodes[2].childNodes) = 2
    /\ nodes[3].associatedItems # <<>>

\* The length of the longest prefix of path that is the path of a node.
RECURSIVE ExistingPrefix(_, _, _)
ExistingPrefix(heap, path, k) ==
    IF k = 0 \/ NodeOf(heap, SubSeq(path, 1, k)) # 0 THEN k
    ELSE ExistingPrefix(heap, path, k - 1)

\* What an insert of a search string with lower-case form t leaves behind:
\* one new node for each character of t behind the longest prefix already in
\* the trie (none when the whole path exists), the new nodes on the path, a
\* node off the path as it was, a node on the path with at most the one
\* child entry more for the next character, which it did not have, and only
\* the last node of the path with an entry more and the terminal flag.
TouchesThePathOnly(t) ==
    LET present == ExistingPrefix(nodes, t, Len(t))
        onPath == [d \in 0..Len(t) |-> NodeOf(nodes', SubSeq(t, 1, d))]
        last == onPath[Len(t)]
    IN /\ Len(nodes') = Len(nodes) + (Len(t) - present)
       /\ \A d \in 0..Len(t) : onPath[d] # 0
       /\ \A d \in 0..present : onPath[d] = NodeOf(nodes, SubSeq(t, 1, d))
       /\ \A d \in (present + 1)..Len(t) : onPath[d] > Len(nodes)
       /\ \A n \in (Len(nodes) + 1)..Len(nodes') : \E d \in 1..Len(t) : onPath[d] = n
       /\ \A n \in 1..Len(nodes) :
              (\A d \in 0..Len(t) : onPath[d] # n) => nodes'[n] = nodes[n]
       /\ \A d \in 0..Len(t) :
              LET n == onPath[d]
                  before == IF n <= Len(nodes) THEN nodes[n] ELSE NewNode
              IN /\ nodes'[n].childNodes =
                        IF d = Len(t) \/ MapHas(before.childNodes, t[d + 1])
                        THEN before.childNodes
                        ELSE Append(before.childNodes,
                                    [char |-> t[d + 1], node |-> onPath[d + 1]])
                 /\ n # last => /\ nodes'[n].associatedItems = before.associatedItems
                                /\ nodes'[n].isCompleteWord = before.isCompleteWord
                 /\ n = last => /\ Len(nodes'[n].associatedItems) =
                                       Len(before.associatedItems) + 1
                                /\ nodes'[n].isCompleteWord

\* C32 as stated: addItemToTrie(s, x) creates a node only where the
\* character is absent, at most |s| nodes, and touches the path only.
C32_Original ==
    [][Len(calls') = Len(calls) + 1 =>
          LET c == calls'[Len(calls')]
          IN /\ Len(nodes') <= Len(nodes) + Len(c.searchString)
             /\ TouchesThePathOnly(toLowerCase(c.searchString))]_vars

\* C32: addItemToTrie(s, x) creates a node only where the character is
\* absent, at most |lowercase(s)| nodes and none when the whole path exists,
\* and touches the path only.
C32_InsertTouchesThePathOnly ==
    [][Len(calls') = Len(calls) + 1 =>
          LET c == calls'[Len(calls')]
              t == toLowerCase(c.searchString)
          IN /\ Len(nodes') <= Len(nodes) + Len(t)
             /\ NodeOf(nodes, t) # 0 => Len(nodes') = Len(nodes)
             /\ TouchesThePathOnly(t)]_vars

\* The first character of the second search string was in the trie and the
\* second was not: one node was created below a node that kept its entry.
C32_Witness ==
    /\ lastCall.op = "addItemToTrie"
    /\ Len(calls) = 2
    /\ calls[1].searchString = <<"a">>
    /\ calls[2].searchString = <<"A", "b">>
    /\ Len(nodes) = 3
    /\ Len(nodes[2].associatedItems) = 1
    /\ nodes[3].isCompleteWord

\* The whole path of the second search string was in the trie: no node was
\* created and an inner node became terminal.
C32_ExistingPathWitness ==
    /\ lastCall.op = "addItemToTrie"
    /\ Len(calls) = 2
    /\ calls[1].searchString = <<"a", "b">>
    /\ calls[2].searchString = <<"a">>
    /\ Len(nodes) = 3
    /\ nodes[2].isCompleteWord /\ nodes[2].childNodes # <<>>

\* A search string of one character made a path of two nodes.
C32_LongerWitness ==
    /\ lastCall.op = "addItemToTrie"
    /\ Len(calls) = 1
    /\ calls[1].searchString = <<DottedI>>
    /\ Len(nodes) = 3
    /\ nodes[3].associatedItems[1].associatedSearchString = LowerOfDottedI

\* The search strings stored in the heap.
StoredSearchStrings(heap) ==
    UNION {{heap[n].associatedItems[e].associatedSearchString :
                e \in 1..Len(heap[n].associatedItems)} : n \in 1..Len(heap)}

\* C33: every node other than the root that has no children is terminal and
\* holds an entry, and the path of every node other than the root is a prefix
\* of a stored search string.
C33_LeavesAreTerminal ==
    \A n \in 2..Len(nodes) :
        /\ nodes[n].childNodes = <<>> =>
               /\ nodes[n].isCompleteWord
               /\ nodes[n].associatedItems # <<>>
        /\ \E t \in StoredSearchStrings(nodes) : IsPrefix(PathOf(nodes, n), t)

\* Two leaves hang below inner nodes that are not terminal, one of them on a
\* path that lower-casing made longer.
C33_Witness ==
    /\ Len(calls) = 2
    /\ calls[1].searchString = <<"a", "b">>
    /\ calls[2].searchString = <<DottedI>>
    /\ Len(nodes) = 5
    /\ ~nodes[2].isCompleteWord /\ ~nodes[4].isCompleteWord
    /\ nodes[3].childNodes = <<>> /\ nodes[5].childNodes = <<>>
    /\ nodes[3].isCompleteWord /\ nodes[5].isCompleteWord

\* C34: once destroy() has returned, the IntersectionObserver does not
\* observe the element again and the metrics do not change, whatever timer
\* or frame was pending at the time of destroy().
C34_NoObservationAfterDestroy ==
    [][tracker.destroyed =>
          /\ ~tracker'.observing
          /\ tracker'.metrics = tracker.metrics]_vars

\* C35: a call of the debounced function does not invoke func; an invocation
\* of func happens wait ms or more after the most recent call, with the
\* arguments of that call, and is the only one since that call; and the
\* most recent call is followed by a further call or by its invocation.
C35_DebounceInvokesOncePerBurst ==
    /\ [][/\ Len(wrapped'.calls) > Len(wrapped.calls) => wrapped'.invoked = wrapped.invoked
          /\ Len(wrapped'.invoked) > Len(wrapped.invoked) =>
                 LET i == wrapped'.invoked[Len(wrapped'.invoked)]
                     c == wrapped.calls[Len(wrapped.calls)]
                 IN /\ Len(wrapped'.invoked) = Len(wrapped.invoked) + 1
                    /\ i.calls = Len(wrapped.calls)
                    /\ i.args = c.args
                    /\ i.at >= c.at + wrapped.wait
                    /\ \A j \in 1..Len(wrapped.invoked) :
                           wrapped.invoked[j].calls < Len(wrapped.calls)]_vars
    /\ \A n \in 1..MaxWrappedCalls :
           (Len(wrapped.calls) = n) ~>
               \/ Len(wrapped.calls) > n
               \/ \E j \in 1..Len(wrapped.invoked) : wrapped.invoked[j].calls = n

\* A burst of two calls less than wait apart was followed, after func ran
\* once with the arguments of the second, by a third call that func ran for.
C35_Witness ==
    /\ wrapped.wait = 2
    /\ Len(wrapped.calls) = 3
    /\ wrapped.calls[1].args = "p" /\ wrapped.calls[2].args = "q"
    /\ wrapped.calls[2].at = wrapped.calls[1].at + 1
    /\ Len(wrapped.invoked) = 2
    /\ wrapped.invoked[1].args = "q" /\ wrapped.invoked[1].calls = 2
    /\ wrapped.invoked[2].calls = 3
    /\ wrapped.timers = {}

\* C36: the first call of the throttled function invokes func at once, and
\* any two invocations of func are limit ms or more apart.
C36_InvocationsAreLimitApart ==
    /\ wrapped.calls # <<>> =>
           /\ wrapped.invoked # <<>>
           /\ wrapped.invoked[1].calls = 1
           /\ wrapped.invoked[1].at = wrapped.calls[1].at
           /\ wrapped.invoked[1].args = wrapped.calls[1].args
    /\ \A i \in 1..(Len(wrapped.invoked) - 1) :
           wrapped.invoked[i + 1].at >= wrapped.invoked[i].at + wrapped.limit

\* C37: at most one frame request of the throttled function is outstanding;
\* a frame that fires invokes callback once, with the arguments of the most
\* recent call; and an invocation follows a call made after the last
\* cancel(), in a frame requested after it.
C37_OneFrameWithTheLatestArguments ==
    /\ [](Cardinality(wrapped.frames) <= 1)
    /\ [][/\ wrapped'.frames # wrapped.frames /\ wrapped'.cancelled = wrapped.cancelled
             /\ Len(wrapped'.calls) = Len(wrapped.calls)
                => Len(wrapped'.invoked) = Len(wrapped.invoked) + 1
          /\ Len(wrapped'.invoked) > Len(wrapped.invoked) =>
                 LET i == wrapped'.invoked[Len(wrapped'.invoked)]
                 IN /\ Len(wrapped'.invoked) = Len(wrapped.invoked) + 1
                    /\ wrapped.calls # <<>>
                    /\ i.args = wrapped.calls[Len(wrapped.calls)].args
                    /\ Len(wrapped.calls) > wrapped.cancelled
                    /\ i.frame > wrapped.cancelled]_vars

\* The frame of the first call was cancelled; the second call requested a
\* frame, the third changed the arguments, and the frame invoked callback
\* with the arguments of the third.
C37_Witness ==
    /\ Len(wrapped.calls) = 3
    /\ wrapped.calls[2].args = "q" /\ wrapped.calls[3].args = "p"
    /\ wrapped.cancelled = 1
    /\ wrapped.invoked = <<[args |-> "p", calls |-> 3, frame |-> 2]>>
    /\ wrapped.frames = {}

\* No timer of a debounced search is pending, the effect has run and
\* search has been called.
FilterAtRest ==
    /\ hook.mounted
    /\ hook.timers = <<>>
    /\ ~hook.effectPending
    /\ hook.searched # <<>>

\* C38: once every pending timer has fired, the trie holds exactly one entry
\* for each of the current items, and suggestions is what the debounced
\* search gives for the term of the most recent search call on that trie,
\* with the options of the latest render or with those captured by the
\* function that was called.
C38_SuggestionsOfTheLatestSearch ==
    FilterAtRest =>
        /\ nodes = EffectTrie(hook.options.items, Len(hook.options.items))
        /\ TotalEntries(nodes, Len(nodes)) = Len(hook.options.items)
        /\ \/ hook.suggestions =
                  DebouncedSearchBody(nodes, hook.searched[1].captured,
                                      hook.searched[1].searchTerm)
           \/ hook.suggestions =
                  DebouncedSearchBody(nodes, SearchDeps(hook.options),
                                      hook.searched[1].searchTerm)

\* Only debounceMs was changed, to a shorter delay, while the timer of
\* search("a") was pending; search("ab") was called on the new function and
\* fired first, the older timer fired last and suggestions is the result
\* for "a".
C38_EarlierSearchFiredLast ==
    /\ FilterAtRest
    /\ hook.options.items = <<"x", "y">>
    /\ hook.options.debounceMs = ShortDebounceMs
    /\ \A o \in DefaultOptions :
           SearchDeps(hook.options) = [SearchDeps(o) EXCEPT !.debounceMs = ShortDebounceMs]
    /\ hook.searched[1].searchTerm = <<"a", "b">>
    /\ hook.searched[1].captured = SearchDeps(hook.options)
    /\ \E timer \in hook.fired :
           /\ timer.searchTerm = <<"a">>
           /\ timer.captured.debounceMs = DefaultDebounceMs
    /\ hook.suggestions = <<"x", "y">>
    /\ DebouncedSearchBody(nodes, SearchDeps(hook.options), <<"a", "b">>) = <<"y", "x">>

====
